---- MODULE Spec2Model ----
(***************************************************************************)
(* A model of the pyHGM30e rules engine: the command handlers of Game      *)
(* (game.py), the empire registry (player.py), the military resolver       *)
(* (military.py), the AI policy (ai.py) and the terrain catalogue          *)
(* (terrain.py).                                                           *)
(*                                                                         *)
(* Number representation.  The program computes with Python floats; the    *)
(* model uses scaled integers and truncates where the program calls int(): *)
(*   science levels          thousandths   (1.0  -> 1000)                  *)
(*   morale                  thousandths   (1.0  -> 1000)                  *)
(*   tax_rate                hundredths    (10.0 -> 1000, 0.25 -> 25)      *)
(*   trust                   tenths        (1.0  -> 10)                    *)
(*   terrain potentials      tenths        (1.2  -> 12)                    *)
(*   random factors, ratios  percent       (0.9  -> 90)                    *)
(* Gold, people, units, ships and building counts are plain integers.      *)
(***************************************************************************)
EXTENDS Integers, Sequences, FiniteSets, TLC

(***************************************************************************)
(* Bounds of the model (the program's values are in the comments).         *)
(***************************************************************************)
\* side of the square map; game.py:28 allocates 15 x 15
MapSize == 3
\* number of empires the scenario file declares; game.py:44 reads it
NumPlayers == 3
\* largest unit-size code a command is issued with; interface.py:401 allows 7
MaxCode == 2
\* commands that take effect in one run
MaxCommands == 2
\* iterations of the AI chain loop followed inside one end_turn command
MaxChain == 4
\* largest navy, sea_army, sea_moved and afloat army a scenario file gives
\* the first empire
MaxFleet == 2
\* largest number of universities of a Player passed to the science functions
MaxUniversities == 8
\* largest number of threatened cells of an empire on the program's map
MaxThreatened == 33

(***************************************************************************)
(* Program constants.                                                      *)
(***************************************************************************)
max_players == 9
FORT_COST == 700
CHURCH_COST == 100
UNIVERSITY_COST == 500
MILL_COST == 200
NAVY_COST == 200
ARMY_COST == 150
\* sell values in percent of the cost
FORT_SELL == 10
CHURCH_SELL == 10
UNIVERSITY_SELL == 50
MILL_SELL == 90
NAVY_SELL == 90
ARMY_SELL == 50
\* the unit sizes a code 1..7 selects
UnitSizes == <<1, 2, 5, 10, 20, 50, 100>>

Players == 1..NumPlayers
Coords == 0..(MapSize - 1)
Cells == Coords \X Coords
Codes == 1..MaxCode
Layers == {"owner", "original", "terrain", "fort", "church", "university",
           "mill", "army", "moved"}
\* the four neighbour offsets in the order game.py scans them
Dirs4 == << <<-1, 0>>, <<1, 0>>, <<0, -1>>, <<0, 1>> >>

InBounds(x, y) == x \in Coords /\ y \in Coords

\* Python's int() on a quotient: truncation toward zero
Trunc(n, d) == IF n >= 0 THEN n \div d ELSE -((-n) \div d)
Max(a, b) == IF a >= b THEN a ELSE b
Min(a, b) == IF a <= b THEN a ELSE b

RECURSIVE SumOver(_, _)
SumOver(S, f) ==
    IF S = {} THEN 0
    ELSE LET c == CHOOSE c \in S : TRUE IN f[c] + SumOver(S \ {c}, f)

VARIABLES
    players,            \* player_manager.players: id -> Player fields
    game_map,           \* game.game_map: layer -> (cell -> integer)
    current_player_id,  \* player_manager.current_player_id
    running,            \* game.running
    turn,               \* game.turn
    pc,                 \* where the program is: "await" a command, inside the
                        \* AI chain loop of end_turn ("ai_loop"), or dead after
                        \* an exception left handle_command ("raised")
    commands,           \* history: commands that took effect so far
    ender,              \* history: the empire whose end_turn is/was last run
    ai_turns            \* history: automatic AI turns per empire within the
                        \* last end_turn command

vars == <<players, game_map, current_player_id, running, turn, pc,
          commands, ender, ai_turns>>

(***************************************************************************)
(* terrain.py: the catalogue.  terrain.typ is not part of the repository,  *)
(* so load_terrain_types takes its except branch: sea followed by the nine *)
(* built-in land types.  Entry i+1 of the sequence is terrain id i.        *)
(***************************************************************************)
TerrainType(n, f, p, d) ==
    [name |-> n, food_potential |-> f, production_potential |-> p,
     defense_bonus |-> d]

terrain_types ==
    << TerrainType("sea", 0, 0, 0),
       TerrainType("plains", 10, 10, 1),
       TerrainType("forest", 8, 12, 2),
       TerrainType("hills", 6, 15, 3),
       TerrainType("mountains", 4, 20, 4),
       TerrainType("desert", 2, 5, 1),
       TerrainType("swamp", 5, 7, 2),
       TerrainType("tundra", 3, 8, 1),
       TerrainType("grassland", 12, 9, 1),
       TerrainType("jungle", 7, 11, 3) >>

get_terrain(index) ==
    IF 0 <= index /\ index < Len(terrain_types)
    THEN terrain_types[index + 1]
    ELSE terrain_types[1]


\* What TerrainManager() builds from a terrain.typ.  The loop at terrain.py
\* 23-36 appends one type per well-formed entry; the first entry that cannot
\* be read (a missing file fails before the first) takes it to the except
\* branch, which extends the list as it is by the nine built-in types.  A
\* file is described by the number of its leading well-formed entries, 9 for
\* a complete one; SourceType(i) is its i-th entry.
SourceNames ==
    <<"typ1", "typ2", "typ3", "typ4", "typ5", "typ6", "typ7", "typ8", "typ9">>

SourceType(i) == TerrainType(SourceNames[i], 10 + i, 20 + i, i)

DefaultLandTypes == SubSeq(terrain_types, 2, 10)

load_terrain_types(well_formed) ==
    LET read == [i \in 1..Min(well_formed, 9) |-> SourceType(i)]
    IN IF well_formed >= 9
       THEN <<terrain_types[1]>> \o read
       ELSE <<terrain_types[1]>> \o read \o DefaultLandTypes

\* TerrainManager.get_terrain on a catalogue
get_terrain_in(types, index) ==
    IF 0 <= index /\ index < Len(types) THEN types[index + 1] ELSE types[1]

get_food_potential(index) == get_terrain(index).food_potential
get_defense_bonus(index) == get_terrain(index).defense_bonus

(***************************************************************************)
(* player.py: Player and PlayerManager.                                    *)
(***************************************************************************)
\* Player.distribute_population: 40/20/25/10 percent, the rest unemployed
distribute_population(p) ==
    IF p.population > 0
    THEN LET pe == (p.population * 40) \div 100
             fi == (p.population * 20) \div 100
             wo == (p.population * 25) \div 100
             me == (p.population * 10) \div 100
         IN [p EXCEPT !.peasants = pe, !.fishers = fi, !.workers = wo,
                      !.merchants = me,
                      !.unemployed = p.population - (pe + fi + wo + me)]
    ELSE p

\* diplomatic_relations.get(target, 3): 0 stands for "no entry"
RelationLevel(p, t) ==
    IF p.diplomatic_relations[t] = 0 THEN 3 ELSE p.diplomatic_relations[t]

\* PlayerManager.get_player(id) is not None
HasPlayer(id) == id \in Players

\* calculate_morale as it would be without the upper clamp min(1, ...)
MoraleValue_no_upper_clamp(p, tc) ==
    LET P == Max(p.population, 1)
        num == (5000 - tc) * (P - p.unemployed) * (20 + p.trust)
               + 10000 * Min(0, p.money)
    IN IF num <= 0 THEN 0 ELSE num \div (100 * P)

\* The value calculate_morale stores, in thousandths, for a tax rate tc:
\*   max(0, min(1, (1 - tax/100*2) * (1 - unemployed/P) * (1 + trust/2)
\*                 + min(0, money) / (10*P)))     with P = max(population, 1)
MoraleValue(p, tc) ==
    LET P == Max(p.population, 1)
        num == (5000 - tc) * (P - p.unemployed) * (20 + p.trust)
               + 10000 * Min(0, p.money)
    IN IF num <= 0 THEN 0 ELSE Min(1000, num \div (100 * P))

calculate_morale(p) == [p EXCEPT !.morale = MoraleValue(p, p.tax_rate)]

\* one income term int(group * (tax_rate/100) * morale * level * k)
ClassIncome(group, p, level, k) ==
    LET a == (group * p.tax_rate * k * p.morale) \div 1000
    IN ((a * level) \div 1000) \div 10000

calculate_income(p) ==
    ClassIncome(p.peasants, p, p.science[1], 4)
    + ClassIncome(p.fishers, p, p.science[4], 4)
    + ClassIncome(p.workers, p, p.science[2], 8)
    + ClassIncome(p.merchants, p, p.science[3], 16)
    - ((p.mills * p.science[2] * 20) \div 1000)
    - p.forts * 30
    - p.churches * 3
    - p.universities * 25
    - p.navy * 20
    - p.soldiers * 30
    + (IF p.money > 0 THEN (p.money * 4) \div 100
       ELSE -(((-p.money) * 12) \div 100))

\* 1 + universities / max(population, 1) * 50, in thousandths
UniFactor(p) == 1000 + (p.universities * 50000) \div Max(p.population, 1)

\* level ** 3 for a level in thousandths, in thousandths
Cube(level) == (((level * level) \div 1000) * level) \div 1000

\* the passive progress of one branch: min(1000/(10000*level^3)*uni, 0.3)
PassiveProgress(p, level) ==
    Min((100 * UniFactor(p)) \div Cube(level), 300)

\* update_science as it would be without the population test at
\* player.py 269
update_science_any_population(p) ==
    [p EXCEPT !.science =
        [i \in 1..6 |-> p.science[i] + PassiveProgress(p, p.science[i])]]

update_science(p) ==
    IF p.population >= 100
    THEN [p EXCEPT !.science =
             [i \in 1..6 |-> p.science[i] + PassiveProgress(p, p.science[i])]]
    ELSE p

\* spend_on_science as it would be without the clamp of the amount to the
\* spending limit at player.py 243
spend_on_science_unclamped(p, branch, amount) ==
    LET current_level == p.science[branch]
        progress == Min((amount * UniFactor(p)) \div (10 * Cube(current_level)),
                        300)
    IN IF amount <= 0 \/ p.money < amount
       THEN [progress |-> 0, player |-> p]
       ELSE [progress |-> progress,
             player |-> [p EXCEPT !.science[branch] = @ + progress,
                                  !.money = @ - amount]]

\* PlayerManager.spend_on_science for a branch 1..6: the progress returned
\* (thousandths) and the player the call leaves.  The progress
\* amount / 10000 / level^3 * uni_factor is positive exactly when the
\* clamped amount is; what the model adds to the level is its truncation to
\* thousandths.
spend_on_science(p, branch, amount) ==
    LET current_level == p.science[branch]
        limit == Cube(current_level)
        spent == Min(amount, limit)
        progress == Min((spent * UniFactor(p)) \div (10 * Cube(current_level)),
                        300)
    IN IF amount <= 0 \/ p.money < amount
       THEN [progress |-> 0, player |-> p]
       ELSE IF spent * UniFactor(p) > 0
       THEN [progress |-> progress,
             player |-> [p EXCEPT !.science[branch] = @ + progress,
                                  !.money = @ - spent]]
       ELSE [progress |-> 0, player |-> p]

\* the growth rate before the morale factor, in millionths
GrowthRateBase(p, food_sum, territory_count) ==
    5000
    + (p.science[6] - 1000) * 1000
    + (food_sum * p.science[1]) \div Max(territory_count, 1)
    + Min(p.churches * 20000, 100000)

\* calculate_population_growth as it would be without the floor max(1, .)
\* at player.py 327
calculate_population_growth_no_floor(p, food_sum, territory_count) ==
    IF p.population <= 0 THEN 0
    ELSE LET base == GrowthRateBase(p, food_sum, territory_count)
             rate == Trunc(base * p.morale, 1000)
             growth == Trunc(p.population * rate, 1000000)
         IN IF base * p.morale > 0 THEN growth ELSE 0

calculate_population_growth(p, food_sum, territory_count) ==
    IF p.population <= 0 THEN 0
    ELSE LET base == GrowthRateBase(p, food_sum, territory_count)
             rate == Trunc(base * p.morale, 1000)
             growth == Trunc(p.population * rate, 1000000)
         IN IF base * p.morale > 0 THEN Max(1, growth) ELSE 0

\* next_player as it would be with the test at player.py 177 reduced to
\* "if player": the next registered id, whatever its land_count
next_player_any_land(ps, cur) ==
    LET next_id == IF cur >= NumPlayers THEN 1 ELSE cur + 1
    IN IF next_id = cur
       THEN [player |-> 0, current_player_id |-> cur]
       ELSE [player |-> next_id, current_player_id |-> next_id]

\* PlayerManager.next_player: the loop body, from current id cur with the
\* id the search started at.  The result is the player found (0 for None)
\* and the value left in current_player_id.
RECURSIVE NextPlayerLoop(_, _, _)
NextPlayerLoop(ps, start_id, cur) ==
    LET next_id == IF cur + 1 > max_players THEN 1 ELSE cur + 1
    IN IF next_id = start_id
       THEN [player |-> 0, current_player_id |-> cur]
       ELSE IF HasPlayer(next_id) /\ ps[next_id].land_count > 0
            THEN [player |-> next_id, current_player_id |-> next_id]
            ELSE NextPlayerLoop(ps, start_id, next_id)

next_player(ps, cur) == NextPlayerLoop(ps, cur, cur)

\* PlayerManager.change_diplomatic_relation: the new registry and the
\* boolean the method returns
change_diplomatic_relation(ps, id, target_id, change) ==
    LET new_level == RelationLevel(ps[id], target_id) + change
    IN IF ~HasPlayer(target_id) \/ target_id = id
       THEN [ok |-> FALSE, players |-> ps]
       ELSE IF 1 <= new_level /\ new_level <= 5
            THEN [ok |-> TRUE,
                  players |->
                     [ps EXCEPT ![id].diplomatic_relations[target_id] = new_level,
                                ![id].relations_changed = @ \cup {target_id}]]
            ELSE [ok |-> FALSE, players |-> ps]

\* PlayerManager.reset_diplomatic_changes
reset_diplomatic_changes(p) == [p EXCEPT !.relations_changed = {}]

(***************************************************************************)
(* Map helpers.                                                            *)
(***************************************************************************)
Owned(gm, id) == {c \in Cells : gm["owner"][c] = id}

\* the in-bounds neighbours of (x, y), in scan order
Neighbours(x, y) ==
    [i \in 1..4 |-> <<x + Dirs4[i][1], y + Dirs4[i][2]>>]

\* a map with one cell of one layer set
SetCell(gm, layer, c, v) == [gm EXCEPT ![layer][c] = v]

\* end_turn as it would be without the recount at game.py 539-545
RecountLand_keeps_counts(ps, gm) == ps

\* game.py 539-545: land_count recomputed from the owner layer
RecountLand(ps, gm) ==
    [id \in Players |-> [ps[id] EXCEPT !.land_count = Cardinality(Owned(gm, id))]]

\* game.py 559-562 and 577-580: the moved layer cleared
ClearMoved(gm) == [gm EXCEPT !["moved"] = [c \in Cells |-> 0]]

(***************************************************************************)
(* military.py: MilitaryManager.                                           *)
(***************************************************************************)
\* values of 0.9 + random.random() * 0.2, in percent
RandFactors == {90, 100, 109}
\* values of random.random() used for fort damage, in percent
RandUnit == {0, 50, 99}

BattleResult(al, dl, tc, pe, fd, msg, nv, rs) ==
    [attacker_losses |-> al, defender_losses |-> dl,
     territory_captured |-> tc, population_exchange |-> pe,
     fort_damage |-> fd, message |-> msg,
     defender_navy |-> nv,      \* defender.navy after the call
     raised |-> rs]             \* the call ended in ZeroDivisionError

\* calculate_battle as it would be if the attacker also won on equal
\* strengths (military.py 79 with >= for >)
calculate_battle_captures_on_equal(attacker, defender, attack_force, defend_force, terrain_type, fort_level, is_naval, r1, r2, r3) ==
    LET a0 == attack_force * attacker.science[5] * r1
        d0 == defend_force * defender.science[5] * r2
        \* both sides on one scale: 1e-8 of a unit (naval), 1e-6 (land)
        att == IF is_naval THEN a0 * attacker.science[4] ELSE a0 * 10
        def == IF is_naval THEN d0 * defender.science[4]
               ELSE d0 * (10 + get_defense_bonus(terrain_type) + 3 * fort_level)
        \* the same in thousandths of a unit
        att_k == IF is_naval THEN att \div 100000 ELSE att \div 1000
        def_k == IF is_naval THEN def \div 100000 ELSE def \div 1000
        crash == BattleResult(0, 0, FALSE, 0, 0, "", defender.navy, TRUE)
    IN IF att >= def
       THEN \* attacker wins: victory_ratio = attack_strength / defense_strength
            IF def = 0 THEN crash
            ELSE IF is_naval
                 THEN LET q == (def_k * 1000) \div att_k
                          al == (attack_force * (3000000 - q * q)) \div 3000000
                          dl == (defend_force * 2) \div 3
                      IN BattleResult(al, dl, TRUE, 0, 0, "Attacker wins!",
                                      Max(0, defender.navy - dl), FALSE)
                 ELSE LET al == (attack_force * def_k) \div (att_k + def_k)
                          fd == IF fort_level > 0 /\ 4 * def > att
                                THEN (fort_level * r3 + 100) \div 200
                                ELSE 0
                          pe == IF defender.population > 0
                                THEN get_food_potential(terrain_type) \div 10
                                ELSE 0
                      IN BattleResult(al, defend_force, TRUE, pe, fd,
                                      "Attacker wins!", defender.navy, FALSE)
       ELSE \* defender wins: defense_ratio = defense_strength / attack_strength
            IF att = 0 THEN crash
            ELSE IF is_naval
                 THEN LET q == (att_k * 1000) \div def_k
                          al == (attack_force * 2) \div 3
                          dl == (defend_force * (3000000 - q * q)) \div 3000000
                      IN BattleResult(al, dl, FALSE, 0, 0, "Defender wins!",
                                      defender.navy, FALSE)
                 ELSE LET dl == (defend_force * (def_k - att_k)) \div def_k
                      IN BattleResult(attack_force, dl, FALSE, 0, 0,
                                      "Defender wins!", defender.navy, FALSE)

\* MilitaryManager.calculate_battle with its three random draws r1, r2, r3.
\* Strengths are kept as exact integer products for the comparison
\* (attack_strength > defense_strength) and in thousandths for the ratios.
calculate_battle(attacker, defender, attack_force, defend_force, terrain_type, fort_level, is_naval, r1, r2, r3) ==
    LET a0 == attack_force * attacker.science[5] * r1
        d0 == defend_force * defender.science[5] * r2
        \* both sides on one scale: 1e-8 of a unit (naval), 1e-6 (land)
        att == IF is_naval THEN a0 * attacker.science[4] ELSE a0 * 10
        def == IF is_naval THEN d0 * defender.science[4]
               ELSE d0 * (10 + get_defense_bonus(terrain_type) + 3 * fort_level)
        \* the same in thousandths of a unit
        att_k == IF is_naval THEN att \div 100000 ELSE att \div 1000
        def_k == IF is_naval THEN def \div 100000 ELSE def \div 1000
        crash == BattleResult(0, 0, FALSE, 0, 0, "", defender.navy, TRUE)
    IN IF att > def
       THEN \* attacker wins: victory_ratio = attack_strength / defense_strength
            IF def = 0 THEN crash
            ELSE IF is_naval
                 THEN LET q == (def_k * 1000) \div att_k
                          al == (attack_force * (3000000 - q * q)) \div 3000000
                          dl == (defend_force * 2) \div 3
                      IN BattleResult(al, dl, TRUE, 0, 0, "Attacker wins!",
                                      Max(0, defender.navy - dl), FALSE)
                 ELSE LET al == (attack_force * def_k) \div (att_k + def_k)
                          fd == IF fort_level > 0 /\ 4 * def > att
                                THEN (fort_level * r3 + 100) \div 200
                                ELSE 0
                          pe == IF defender.population > 0
                                THEN get_food_potential(terrain_type) \div 10
                                ELSE 0
                      IN BattleResult(al, defend_force, TRUE, pe, fd,
                                      "Attacker wins!", defender.navy, FALSE)
       ELSE \* defender wins: defense_ratio = defense_strength / attack_strength
            IF att = 0 THEN crash
            ELSE IF is_naval
                 THEN LET q == (att_k * 1000) \div def_k
                          al == (attack_force * 2) \div 3
                          dl == (defend_force * (3000000 - q * q)) \div 3000000
                      IN BattleResult(al, dl, FALSE, 0, 0, "Defender wins!",
                                      defender.navy, FALSE)
                 ELSE LET dl == (defend_force * (def_k - att_k)) \div def_k
                      IN BattleResult(attack_force, dl, FALSE, 0, 0,
                                      "Defender wins!", defender.navy, FALSE)

\* MilitaryManager.move_army: whether it returns True
move_army_ok(gm, amount, from, to) ==
    /\ InBounds(from[1], from[2]) /\ InBounds(to[1], to[2])
    /\ gm["army"][from] >= amount
    /\ gm["terrain"][to] # 0

\* move_army as it would be if the units were written to the army layer of
\* the destination instead of the moved layer
move_army_into_army_layer(gm, amount, from, to) ==
    [gm EXCEPT !["army"][from] = @ - amount,
               !["army"][to] = @ + amount]

\* MilitaryManager.move_army: the map after a successful call
move_army(gm, amount, from, to) ==
    [gm EXCEPT !["army"][from] = @ - amount,
               !["moved"][to] = @ + amount]

\* MilitaryManager.embark_army: whether it returns True
embark_army_ok(gm, owner, amount, from, to) ==
    /\ InBounds(from[1], from[2]) /\ InBounds(to[1], to[2])
    /\ gm["army"][from] >= amount
    /\ gm["terrain"][to] = 0
    /\ ~(owner.sea_moved + owner.sea_army + amount > owner.navy)

\* MilitaryManager.embark_army: the army layer after a successful call
\* (two writes in program order, which matters when from = to)
embark_army_map(gm, amount, from, to) ==
    LET g1 == [gm EXCEPT !["army"][from] = @ - amount]
    IN [g1 EXCEPT !["army"][to] = @ + amount]

\* embark_army as it would be if the units were counted as embarked
\* (sea_army) instead of embarked and moved (sea_moved)
embark_army_counts_sea_army(owner, amount) ==
    [owner EXCEPT !.sea_army = @ + amount]

\* MilitaryManager.embark_army: the owner after a successful call
embark_army_owner(owner, amount) == [owner EXCEPT !.sea_moved = @ + amount]

\* MilitaryManager.embark_army: the value returned, the owner and the map
\* the call leaves
embark_army(gm, owner, amount, from, to) ==
    IF embark_army_ok(gm, owner, amount, from, to)
    THEN [ok |-> TRUE, owner |-> embark_army_owner(owner, amount),
          game_map |-> embark_army_map(gm, amount, from, to)]
    ELSE [ok |-> FALSE, owner |-> owner, game_map |-> gm]

(***************************************************************************)
(* game.py: the command handlers.  A handler is an operator from the       *)
(* registry ps, the map gm, the acting empire id, the selected cell (x, y) *)
(* and the unit-size code to the registry, map and message it leaves.      *)
(***************************************************************************)
Outcome(ps, gm, msg) == [players |-> ps, game_map |-> gm, message |-> msg]

UnitSize(code) == UnitSizes[code]

TerrainName(gm, c) == get_terrain(gm["terrain"][c]).name

\* the four building branches as they would be if the building were placed
\* before the treasury is checked
BuildStructure_places_first(ps, gm, id, c, building, forbidden, cost) ==
    IF TerrainName(gm, c) = "sea"
    THEN Outcome(ps, gm, "Cannot build on sea")
    ELSE IF TerrainName(gm, c) \in forbidden
    THEN Outcome(ps, gm, "Cannot build on this terrain")
    ELSE IF ps[id].money < cost
    THEN Outcome(ps, [gm EXCEPT ![building][c] = @ + 1], "Not enough gold")
    ELSE Outcome([ps EXCEPT ![id].money = @ - cost],
                 [gm EXCEPT ![building][c] = @ + 1],
                 "Built")

\* game.py 613-671: fort, church, university, mill
BuildStructure(ps, gm, id, c, building, forbidden, cost) ==
    IF TerrainName(gm, c) = "sea"
    THEN Outcome(ps, gm, "Cannot build on sea")
    ELSE IF TerrainName(gm, c) \in forbidden
    THEN Outcome(ps, gm, "Cannot build on this terrain")
    ELSE IF ps[id].money < cost
    THEN Outcome(ps, gm, "Not enough gold")
    ELSE Outcome([ps EXCEPT ![id].money = @ - cost],
                 [gm EXCEPT ![building][c] = @ + 1],
                 "Built")

\* game.py 693-718: the recruits are taken from the unemployed, then the
\* peasants, then the workers, then the merchants
RecruitFrom(p, unit_size) ==
    LET u1 == Min(unit_size, p.unemployed)
        r1 == unit_size - u1
        u2 == Min(r1, p.peasants)
        r2 == r1 - u2
        u3 == Min(r2, p.workers)
        r3 == r2 - u3
        u4 == Min(r3, p.merchants)
    IN [p EXCEPT !.unemployed = @ - u1, !.peasants = @ - u2,
                 !.workers = @ - u3, !.merchants = @ - u4]

\* game.py 673-722
BuildArmy(ps, gm, id, c, code) ==
    LET p == ps[id]
        unit_size == UnitSize(code)
        cost == ARMY_COST * unit_size
        total_available == p.unemployed + p.peasants + p.workers + p.merchants
    IN IF TerrainName(gm, c) = "sea"
       THEN Outcome(ps, gm, "Cannot recruit army on sea")
       ELSE IF p.money < cost
       THEN Outcome(ps, gm, "Not enough gold")
       ELSE IF total_available < unit_size
       THEN Outcome(ps, gm, "Not enough population")
       ELSE Outcome([ps EXCEPT ![id] =
                        [RecruitFrom(p, unit_size) EXCEPT !.money = @ - cost]],
                    [gm EXCEPT !["army"][c] = @ + unit_size],
                    "Recruited army")

\* game.py 730-738: an owned land cell next to (x, y)
HasAdjacentLand(gm, id, c) ==
    \E i \in 1..4 :
        LET n == Neighbours(c[1], c[2])[i]
        IN /\ InBounds(n[1], n[2])
           /\ gm["owner"][n] = id
           /\ gm["terrain"][n] # 0

\* game.py 724-753
BuildNavy(ps, gm, id, c, code) ==
    LET unit_size == UnitSize(code)
        cost == NAVY_COST * unit_size
    IN IF TerrainName(gm, c) # "sea"
       THEN Outcome(ps, gm, "Must build navy on sea tile")
       ELSE IF ~HasAdjacentLand(gm, id, c)
       THEN Outcome(ps, gm, "Must build navy adjacent to owned land")
       ELSE IF ps[id].money < cost
       THEN Outcome(ps, gm, "Not enough gold")
       ELSE Outcome([ps EXCEPT ![id].navy = @ + unit_size,
                               ![id].money = @ - cost],
                    gm, "Built ships")

Buildings == {"fort", "church", "university", "mill", "army", "navy"}

\* Game._handle_build_command
handle_build_command(ps, gm, id, building, c, code) ==
    IF gm["owner"][c] # id
    THEN Outcome(ps, gm, "You don't own this territory")
    ELSE CASE building = "fort" ->
                BuildStructure(ps, gm, id, c, "fort", {"swamp"}, FORT_COST)
           [] building = "church" ->
                BuildStructure(ps, gm, id, c, "church", {"mountain"}, CHURCH_COST)
           [] building = "university" ->
                BuildStructure(ps, gm, id, c, "university",
                               {"mountain", "swamp", "desert"}, UNIVERSITY_COST)
           [] building = "mill" ->
                BuildStructure(ps, gm, id, c, "mill", {"desert", "tundra"}, MILL_COST)
           [] building = "army" -> BuildArmy(ps, gm, id, c, code)
           [] building = "navy" -> BuildNavy(ps, gm, id, c, code)

\* game.py 764-776: one building sold from the cell
SellStructure(ps, gm, id, c, building, cost, sell) ==
    LET refund == (cost * sell) \div 100
    IN IF refund > 0
       THEN Outcome([ps EXCEPT ![id].money = @ + refund],
                    [gm EXCEPT ![building][c] = @ - 1], "Sold")
       ELSE Outcome(ps, [gm EXCEPT ![building][c] = @ - 1], "Nothing to sell")

\* _handle_sell_command as it would be if an army sale did not compare the
\* cell's units with the unit size (game.py 778-784)
handle_sell_command_any_army(ps, gm, id, building, c, code) ==
    LET unit_size == UnitSize(code)
        army_refund == (ARMY_COST * ARMY_SELL * unit_size) \div 100
    IN IF gm["owner"][c] = id /\ building = "army" /\ gm["army"][c] > 0
       THEN Outcome([ps EXCEPT ![id].money = @ + army_refund],
                    [gm EXCEPT !["army"][c] = @ - unit_size], "Sold")
       ELSE Outcome(ps, gm, "Nothing to sell")

\* Game._handle_sell_command
handle_sell_command(ps, gm, id, building, c, code) ==
    LET unit_size == UnitSize(code)
        army_refund == (ARMY_COST * ARMY_SELL * unit_size) \div 100
        navy_refund == (NAVY_COST * NAVY_SELL * unit_size) \div 100
    IN IF gm["owner"][c] # id
       THEN Outcome(ps, gm, "You don't own this territory")
       ELSE IF building = "fort" /\ gm["fort"][c] > 0
       THEN SellStructure(ps, gm, id, c, "fort", FORT_COST, FORT_SELL)
       ELSE IF building = "church" /\ gm["church"][c] > 0
       THEN SellStructure(ps, gm, id, c, "church", CHURCH_COST, CHURCH_SELL)
       ELSE IF building = "university" /\ gm["university"][c] > 0
       THEN SellStructure(ps, gm, id, c, "university", UNIVERSITY_COST,
                          UNIVERSITY_SELL)
       ELSE IF building = "mill" /\ gm["mill"][c] > 0
       THEN SellStructure(ps, gm, id, c, "mill", MILL_COST, MILL_SELL)
       ELSE IF building = "army" /\ gm["army"][c] > 0
       THEN IF gm["army"][c] >= unit_size
            THEN Outcome([ps EXCEPT ![id].money = @ + army_refund],
                         [gm EXCEPT !["army"][c] = @ - unit_size], "Sold")
            ELSE Outcome(ps, gm, "Not enough units")
       ELSE IF building = "navy" /\ ps[id].navy > 0
       THEN IF ps[id].navy >= unit_size
            THEN Outcome([ps EXCEPT ![id].navy = @ - unit_size,
                                    ![id].money = @ + navy_refund],
                         gm, "Sold")
            ELSE Outcome(ps, gm, "Not enough naval units")
       ELSE Outcome(ps, gm, "Nothing to sell")

Directions == {"up", "down", "left", "right"}

\* game.py 807-811
MoveTarget(c, direction) ==
    CASE direction = "up" -> <<c[1], c[2] - 1>>
      [] direction = "down" -> <<c[1], c[2] + 1>>
      [] direction = "left" -> <<c[1] - 1, c[2]>>
      [] direction = "right" -> <<c[1] + 1, c[2]>>

\* whether Game._handle_move_command moves the units
MoveSucceeds(gm, id, direction, c, code) ==
    /\ gm["owner"][c] = id
    /\ InBounds(MoveTarget(c, direction)[1], MoveTarget(c, direction)[2])
    /\ move_army_ok(gm, UnitSize(code), c, MoveTarget(c, direction))

\* Game._handle_move_command; its two silent returns set no message
handle_move_command(ps, gm, id, direction, c, code) ==
    LET to == MoveTarget(c, direction)
    IN IF gm["owner"][c] # id THEN Outcome(ps, gm, "")
       ELSE IF ~InBounds(to[1], to[2]) THEN Outcome(ps, gm, "")
       ELSE IF move_army_ok(gm, UnitSize(code), c, to)
       THEN Outcome(ps, move_army(gm, UnitSize(code), c, to), "Moved units")
       ELSE Outcome(ps, gm, "Invalid move")

EmbarkOutcome(ps, gm, msg, rs) ==
    [players |-> ps, game_map |-> gm, message |-> msg, raised |-> rs]

\* the last index i of 1..4 whose neighbour is a cell of S, 0 when none is
LastNeighbour(c, S) ==
    LET hits == {i \in 1..4 : Neighbours(c[1], c[2])[i] \in S}
    IN IF hits = {} THEN 0 ELSE CHOOSE i \in hits : \A j \in hits : j <= i

\* game.py 334-361 and 403-430: the units are embarked (the caller has
\* checked that embark_army succeeds), the naval battle against the enemy's
\* navy is resolved and its result applied to the selected cell c
EmbarkAndBattle(ps, gm, id, enemy_id, c, from, to, unit_size, r1, r2) ==
    LET ps1 == [ps EXCEPT ![id] = embark_army_owner(ps[id], unit_size)]
        gm1 == embark_army_map(gm, unit_size, from, to)
        b == calculate_battle(ps1[id], ps1[enemy_id], unit_size,
                              ps1[enemy_id].navy, 0, 0, TRUE, r1, r2, 0)
        ps2 == [ps1 EXCEPT ![enemy_id].navy = b.defender_navy]
        remaining_units == unit_size - b.attacker_losses
        gm2 == [gm1 EXCEPT !["owner"][c] = id]
        gm3 == IF remaining_units > 0
               THEN [gm2 EXCEPT !["army"][c] = remaining_units]
               ELSE gm2
    IN IF b.raised THEN EmbarkOutcome(ps1, gm1, "", TRUE)
       ELSE IF b.territory_captured
       THEN EmbarkOutcome(ps2, gm3, "Victory! Territory captured", FALSE)
       ELSE EmbarkOutcome(ps2, gm1, b.message, FALSE)

\* game.py 369-443: embarking from the selected cell
EmbarkFromOwned(ps, gm, id, c, unit_size, r1, r2) ==
    LET IsEnemy == {n \in Cells : gm["owner"][n] # 0 /\ gm["owner"][n] # id}
        IsSea == {n \in Cells : gm["terrain"][n] = 0}
        e == LastNeighbour(c, IsEnemy)
        s == LastNeighbour(c, IsSea)
        enemy_id == gm["owner"][Neighbours(c[1], c[2])[e]]
        embark == Neighbours(c[1], c[2])[s]
    IN IF gm["owner"][c] # id
       THEN EmbarkOutcome(ps, gm, "You don't own this territory", FALSE)
       ELSE IF gm["army"][c] < unit_size
       THEN EmbarkOutcome(ps, gm, "Not enough units", FALSE)
       ELSE IF e # 0 /\ s # 0 /\ HasPlayer(enemy_id)
               /\ embark_army_ok(gm, ps[id], unit_size, c, embark)
       THEN EmbarkAndBattle(ps, gm, id, enemy_id, c, c, embark,
                            unit_size, r1, r2)
       ELSE IF s # 0 /\ embark_army_ok(gm, ps[id], unit_size, c, embark)
       THEN EmbarkOutcome([ps EXCEPT ![id] = embark_army_owner(ps[id], unit_size)],
                          embark_army_map(gm, unit_size, c, embark),
                          "Embarked units", FALSE)
       ELSE EmbarkOutcome(ps, gm, "No adjacent sea tiles to embark to", FALSE)

\* Game._handle_embark_command with the two random draws of the battle
handle_embark_command(ps, gm, id, c, code, r1, r2) ==
    LET unit_size == UnitSize(code)
        enemy_id == gm["owner"][c]
        IsFriendly == {n \in Cells : gm["owner"][n] = id
                                      /\ gm["army"][n] >= unit_size}
        IsOtherSea == {n \in Cells \ IsFriendly : gm["terrain"][n] = 0}
        f == LastNeighbour(c, IsFriendly)
        friendly == Neighbours(c[1], c[2])[f]
        sea_tile_found == LastNeighbour(c, IsOtherSea) # 0
    IN IF enemy_id # id /\ enemy_id # 0
       THEN IF f # 0 /\ sea_tile_found
            THEN IF HasPlayer(enemy_id)
                    /\ embark_army_ok(gm, ps[id], unit_size, friendly, friendly)
                 THEN EmbarkAndBattle(ps, gm, id, enemy_id, c, friendly,
                                      friendly, unit_size, r1, r2)
                 ELSE EmbarkFromOwned(ps, gm, id, c, unit_size, r1, r2)
            ELSE IF f = 0
            THEN EmbarkOutcome(ps, gm,
                     "No adjacent friendly territory with enough units", FALSE)
            ELSE EmbarkOutcome(ps, gm,
                     "No adjacent sea tiles for naval invasion", FALSE)
       ELSE EmbarkFromOwned(ps, gm, id, c, unit_size, r1, r2)

(***************************************************************************)
(* game.py: Game._handle_end_turn, the update of the ending empire.        *)
(***************************************************************************)
\* game.py 474-533: the growth split over the population groups by the
\* composition of the owned cells; the four ratios are normalised by their
\* sum, so a group's share is growth * weight / (sum of the weights)
distribute_growth(p, gm, id, growth) ==
    LET own == Owned(gm, id)
        land_tiles == Cardinality({c \in own : gm["terrain"][c] # 0})
        sea_tiles == Cardinality({c \in own : gm["terrain"][c] = 0})
        total_production ==
            Cardinality({c \in own :
                get_terrain(gm["terrain"][c]).production_potential > 0})
        trade_routes ==
            Cardinality({c \in own :
                \E i \in 1..4 : LET n == Neighbours(c[1], c[2])[i]
                                IN InBounds(n[1], n[2]) /\ gm["owner"][n] = id})
        wp == 4 * land_tiles
        wf == 4 * sea_tiles
        ww == 3 * total_production
        wm == 2 * trade_routes
        total == wp + wf + ww + wm
        share(w) == IF total > 0 THEN (growth * w) \div total ELSE 0
        remaining == growth - (share(wp) + share(wf) + share(ww) + share(wm))
    IN [p EXCEPT !.peasants = @ + share(wp), !.fishers = @ + share(wf),
                 !.workers = @ + share(ww), !.merchants = @ + share(wm),
                 !.unemployed = @ + remaining]

\* game.py 451-537: morale, science, growth and its distribution, income
UpdateEndingPlayer(p, gm, id) ==
    LET p1 == update_science(calculate_morale(p))
        own == Owned(gm, id)
        food_sum == SumOver(own, [c \in Cells |->
                                    get_food_potential(gm["terrain"][c])])
        growth == calculate_population_growth(p1, food_sum, Cardinality(own))
        p2 == [p1 EXCEPT !.population = @ + growth]
        p3 == IF growth > 0 THEN distribute_growth(p2, gm, id, growth) ELSE p2
    IN [p3 EXCEPT !.money = @ + calculate_income(p3)]

(***************************************************************************)
(* ai.py: AI.make_decisions.  default.ai, land.ai and seatrade.ai are not  *)
(* part of the repository, so every profile is the built-in AISettings().  *)
(* _make_diplomatic_decisions writes only Player.diplomatic_actions, which *)
(* nothing else in the program reads; it is left out of the state.         *)
(***************************************************************************)
\* AISettings defaults: min_morale 0.5 (thousandths), min_tax 0.1
\* (hundredths), spending ratios and navy_priority in percent
AISettings ==
    [min_morale |-> 500, min_tax |-> 10,
     war_military_spending |-> 40, peace_military_spending |-> 20,
     navy_priority |-> 20]

\* AI._adjust_tax_rate: the loop assigns tax / 100 for tax = 1..25 and keeps
\* the last one whose morale exceeds the floor
adjust_tax_rate(p) ==
    LET P == Max(p.population, 1)
        \* morale > min_morale * (1 - unemployed / P), both in thousandths
        Good(tax) == MoraleValue(p, tax) * P
                        > AISettings.min_morale * (P - p.unemployed)
        good == {tax \in 1..25 : Good(tax)}
        best_tax == IF good = {} THEN AISettings.min_tax
                    ELSE CHOOSE t \in good : \A u \in good : u <= t
    IN calculate_morale([p EXCEPT !.tax_rate = Max(best_tax, AISettings.min_tax)])

\* AI._defend_territories: the owned cells with a foreign-owned neighbour
Threatened(gm, id) ==
    {c \in Owned(gm, id) :
        \E i \in 1..4 : LET n == Neighbours(c[1], c[2])[i]
                        IN /\ InBounds(n[1], n[2])
                           /\ gm["owner"][n] # id
                           /\ gm["owner"][n] # 0}

\* the cells of S in the order the program scans the map (row by row)
RECURSIVE ScanOrder(_)
ScanOrder(S) ==
    IF S = {} THEN << >>
    ELSE LET c == CHOOSE c \in S :
                    \A d \in S : c[2] < d[2] \/ (c[2] = d[2] /\ c[1] <= d[1])
         IN <<c>> \o ScanOrder(S \ {c})

\* ai.py 267-270: armies bought cell by cell while the treasury allows
RECURSIVE DefendLoop(_, _, _, _)
DefendLoop(p, army, cells, armies_per_territory) ==
    IF cells = << >> THEN [player |-> p, army |-> army]
    ELSE IF p.money >= ARMY_COST
    THEN DefendLoop([p EXCEPT !.money = @ - armies_per_territory * ARMY_COST],
                    [army EXCEPT ![Head(cells)] = @ + armies_per_territory],
                    Tail(cells), armies_per_territory)
    ELSE DefendLoop(p, army, Tail(cells), armies_per_territory)

defend_territories(p, gm, id, budget) ==
    LET threatened == ScanOrder(Threatened(gm, id))
        armies_per_territory ==
            Max(1, budget \div (Len(threatened) * ARMY_COST))
    IN IF threatened = << >> THEN [player |-> p, army |-> gm["army"]]
       ELSE DefendLoop(p, gm["army"], threatened, armies_per_territory)

\* AI._has_coast
has_coast(gm, id) ==
    \E c \in Owned(gm, id) :
        \E i \in 1..4 : LET n == Neighbours(c[1], c[2])[i]
                        IN InBounds(n[1], n[2]) /\ gm["terrain"][n] = 0

\* AI._build_navy
build_navy(p, budget) ==
    LET ships == budget \div NAVY_COST
    IN IF ships > 0
       THEN [p EXCEPT !.navy = @ + ships, !.money = @ - ships * NAVY_COST]
       ELSE p

\* AI._make_military_decisions
make_military_decisions(p, gm, id) ==
    LET at_war == \E t \in Players : p.diplomatic_relations[t] = 1
        military_ratio == IF at_war THEN AISettings.war_military_spending
                          ELSE AISettings.peace_military_spending
        military_budget == Trunc(p.money * military_ratio, 100)
        d == defend_territories(p, gm, id, military_budget)
        navy_budget == (military_budget * AISettings.navy_priority) \div 100
        p2 == IF has_coast(gm, id) THEN build_navy(d.player, navy_budget)
              ELSE d.player
    IN IF military_budget > 0
       THEN [player |-> p2, game_map |-> [gm EXCEPT !["army"] = d.army]]
       ELSE [player |-> p, game_map |-> gm]

ConstructionCost(building) ==
    CASE building = "church" -> CHURCH_COST
      [] building = "mill" -> MILL_COST
      [] building = "university" -> UNIVERSITY_COST

\* the outcomes of the random draws of make_decisions (ai.py 134, 309 and
\* 330): no construction, or a building on an owned cell
ConstructionChoices(gm, id) ==
    {<<"none", <<0, 0>> >>}
       \cup ({"church", "mill", "university"} \X Owned(gm, id))

\* ai.py 134-135 and AI._handle_construction for one outcome of the draws
handle_construction(p, gm, id, choice) ==
    LET building == choice[1]
        c == choice[2]
    IN IF /\ building # "none"
          /\ p.money > 0
          /\ gm["owner"][c] = id
          /\ p.money >= ConstructionCost(building)
       THEN [player |-> [p EXCEPT !.money = @ - ConstructionCost(building)],
             game_map |-> [gm EXCEPT ![building][c] = @ + 1]]
       ELSE [player |-> p, game_map |-> gm]

\* AI.make_decisions up to the construction draws (ai.py 120-131)
make_decisions(p, gm, id) ==
    make_military_decisions(adjust_tax_rate(p), gm, id)

\* game.py 569-575: morale, science and income of the AI empire after its
\* decisions d
UpdateAIPlayer(d) ==
    LET p1 == update_science(calculate_morale(d.player))
    IN [player |-> [p1 EXCEPT !.money = @ + calculate_income(p1)],
        game_map |-> d.game_map]

(***************************************************************************)
(* The initial states: Game() followed by load_scenario (game.py 39-96)    *)
(* and set_player_control (game.py 879-886).                               *)
(***************************************************************************)
\* a Player as load_scenario leaves it: Player() defaults (player.py 49-90),
\* the values read from the file, distribute_population applied
LoadedPlayer(control, population, money, navy) ==
    distribute_population(
        [control |-> control, money |-> money, population |-> population,
         navy |-> navy, sea_army |-> 0, sea_moved |-> 0, land_count |-> 0,
         tax_rate |-> 1000, morale |-> 1000, trust |-> 10,
         peasants |-> 0, fishers |-> 0, workers |-> 0, merchants |-> 0,
         soldiers |-> 0, unemployed |-> 0,
         forts |-> 0, churches |-> 0, universities |-> 0, mills |-> 0,
         science |-> [i \in 1..6 |-> 1000],
         diplomatic_relations |-> [t \in Players |-> 0],
         relations_changed |-> {}])

Zero == [c \in Cells |-> 0]

\* The scenario of the full game.  Empire 1 holds two adjacent land cells in
\* the north-west, each with an army, and the sea cell south of them; the
\* eastern one borders empire 2 and open sea, the western one only own land
\* and sea.  Empire 2 holds two land cells in the east, empire 3 one land
\* cell in the south; everything else is open sea.
ScenarioOwner ==
    [c \in Cells |->
        CASE c \in {<<0, 0>>, <<1, 0>>, <<0, 1>>} -> 1
          [] c \in {<<2, 0>>, <<2, 1>>} -> 2
          [] c = <<1, 2>> -> 3
          [] OTHER -> 0]

ScenarioTerrain ==
    [c \in Cells |->
        CASE c \in {<<1, 0>>, <<2, 0>>} -> 1
          [] c = <<0, 0>> -> 6
          [] c = <<2, 1>> -> 5
          [] c = <<1, 2>> -> 7
          [] OTHER -> 0]

ScenarioArmy ==
    [c \in Cells |->
        CASE c = <<1, 0>> -> 2
          [] c \in {<<0, 0>>, <<2, 0>>} -> 1
          [] OTHER -> 0]

ScenarioMap ==
    [l \in Layers |->
        CASE l \in {"owner", "original"} -> ScenarioOwner
          [] l = "terrain" -> ScenarioTerrain
          [] l = "army" -> ScenarioArmy
          [] OTHER -> Zero]

ScenarioPlayers ==
    [id \in Players |->
        CASE id = 1 -> LoadedPlayer("human", 100, 700, 1)
          [] id = 2 -> LoadedPlayer("default.ai", 100, 5000, 0)
          [] OTHER -> LoadedPlayer("default.ai", 40, 0, 0)]

Init ==
    /\ game_map = ScenarioMap
    /\ players = RecountLand(ScenarioPlayers, ScenarioMap)
    /\ current_player_id = 1
    /\ running = TRUE
    /\ turn = 0
    /\ pc = "await"
    /\ commands = 0
    /\ ender = 0
    /\ ai_turns = [id \in Players |-> 0]

(***************************************************************************)
(* The commands: Game.handle_command (game.py 188-305).  The message a     *)
(* handler leaves in interface.state.message is part of its outcome but    *)
(* not of the state: nothing in the engine reads it back.                  *)
(***************************************************************************)
\* handle_command runs a command only for an existing current player, and
\* the main loop (game.py 833) feeds it commands only while running
Awaiting ==
    /\ pc = "await"
    /\ running
    /\ HasPlayer(current_player_id)
    /\ commands < MaxCommands

\* the registry and map a handler leaves; a command that changes neither is
\* a stuttering step
Apply(o) ==
    /\ o.players # players \/ o.game_map # game_map
    /\ players' = o.players
    /\ game_map' = o.game_map
    /\ commands' = commands + 1
    /\ UNCHANGED <<current_player_id, running, turn, ender, ai_turns>>

BuildCommand ==
    /\ Awaiting
    /\ \E building \in Buildings, c \in Cells, code \in Codes :
          Apply(handle_build_command(players, game_map, current_player_id,
                                     building, c, code))
    /\ UNCHANGED pc

SellCommand ==
    /\ Awaiting
    /\ \E building \in Buildings, c \in Cells, code \in Codes :
          Apply(handle_sell_command(players, game_map, current_player_id,
                                    building, c, code))
    /\ UNCHANGED pc

MoveCommand ==
    /\ Awaiting
    /\ \E direction \in Directions, c \in Cells, code \in Codes :
          Apply(handle_move_command(players, game_map, current_player_id,
                                    direction, c, code))
    /\ UNCHANGED pc

\* the messages of an embark command that resolved a naval battle
BattleMessages ==
    {"Victory! Territory captured", "Attacker wins!", "Defender wins!"}

\* an exception that leaves handle_command ends the program (game.py 840);
\* random.random() is drawn only inside calculate_battle, so the two draws
\* are inputs only of a command that reaches a battle
EmbarkCommand ==
    /\ Awaiting
    /\ \E c \in Cells, code \in Codes :
          \E o0 \in {handle_embark_command(players, game_map, current_player_id,
                                           c, code, 100, 100)} :
             IF o0.message \in BattleMessages
             THEN \E r1 \in RandFactors, r2 \in RandFactors :
                     \E o \in {handle_embark_command(players, game_map,
                                  current_player_id, c, code, r1, r2)} :
                        Apply(o) /\ UNCHANGED pc
             ELSE /\ Apply(o0)
                  /\ pc' = IF o0.raised THEN "raised" ELSE pc

\* game.py 289-296
SetNegativeCommand ==
    /\ Awaiting
    /\ \E target_id \in Players :
          Apply([players |-> [players EXCEPT
                    ![current_player_id].diplomatic_relations[target_id] = 2,
                    ![target_id].diplomatic_relations[current_player_id] = 2],
                 game_map |-> game_map])
    /\ UNCHANGED pc

\* the improve_relations command as it would be if it passed -1 for the
\* change (game.py 299)
handle_improve_relations_worsens(ps, id, target_id) ==
    LET r == change_diplomatic_relation(ps, id, target_id, -1)
    IN IF r.ok
       THEN [r.players EXCEPT ![target_id].diplomatic_relations[id] =
                r.players[id].diplomatic_relations[target_id]]
       ELSE ps

\* game.py 297-304
handle_improve_relations(ps, id, target_id) ==
    LET r == change_diplomatic_relation(ps, id, target_id, 1)
    IN IF r.ok
       THEN [r.players EXCEPT ![target_id].diplomatic_relations[id] =
                r.players[id].diplomatic_relations[target_id]]
       ELSE ps

ImproveRelationsCommand ==
    /\ Awaiting
    /\ \E target_id \in Players :
          Apply([players |-> handle_improve_relations(players, current_player_id,
                                                      target_id),
                 game_map |-> game_map])
    /\ UNCHANGED pc

\* the amounts a spend_science command is issued with
ScienceAmounts == {-100, 0, 100, 2000, 5000}

\* game.py 268-287
SpendScienceCommand ==
    /\ Awaiting
    /\ \E branch \in 1..6, amount \in ScienceAmounts :
          Apply([players |-> [players EXCEPT ![current_player_id] =
                                 spend_on_science(@, branch, amount).player],
                 game_map |-> game_map])
    /\ UNCHANGED pc

\* game.py 226-239: decrease_tax and increase_tax move the rate by ten
\* points inside [0, 100]
handle_tax_command(p, cmd) ==
    IF cmd = "decrease_tax"
    THEN IF p.tax_rate >= 1000
         THEN [p EXCEPT !.tax_rate = Max(0, p.tax_rate - 1000)] ELSE p
    ELSE IF p.tax_rate <= 9000
         THEN [p EXCEPT !.tax_rate = Min(10000, p.tax_rate + 1000)] ELSE p

TaxCommand ==
    /\ Awaiting
    /\ \E cmd \in {"decrease_tax", "increase_tax"} :
          Apply([players |-> [players EXCEPT ![current_player_id] =
                                 handle_tax_command(@, cmd)],
                 game_map |-> game_map])
    /\ UNCHANGED pc

(***************************************************************************)
(* Game._handle_end_turn (game.py 445-598).  The command is two kinds of   *)
(* step: EndTurnCommand runs the handler up to the AI chain loop (and to   *)
(* its end when the loop is not entered); AIChainTurn is one iteration of  *)
(* the loop at game.py 565-589, and runs on to the end of the handler when *)
(* the loop condition fails.  No other command runs while pc = "ai_loop".  *)
(***************************************************************************)
\* end_turn as it would be if the turn were counted whenever empire 1 is
\* handed control, its automatic turns included
HandOver_counts_automatic_turns(ps, gm, np) ==
    /\ players' = ps
    /\ game_map' = gm
    /\ current_player_id' = np.current_player_id
    /\ UNCHANGED running
    /\ pc' = IF ps[np.player].control # "human" THEN "ai_loop" ELSE "await"
    /\ turn' = IF np.player = 1 THEN turn + 1 ELSE turn

\* game.py 550-554 and 586-589
GameOver(ps, gm, np) ==
    /\ players' = ps
    /\ game_map' = gm
    /\ current_player_id' = np.current_player_id
    /\ running' = FALSE
    /\ pc' = "await"
    /\ UNCHANGED turn

\* game.py 565 and 591-598: the loop is entered or continued for an AI
\* empire; for a human one the handler ends
HandOver(ps, gm, np) ==
    /\ players' = ps
    /\ game_map' = gm
    /\ current_player_id' = np.current_player_id
    /\ UNCHANGED running
    /\ IF ps[np.player].control # "human"
       THEN /\ pc' = "ai_loop"
            /\ UNCHANGED turn
       ELSE /\ pc' = "await"
            /\ turn' = IF np.player = 1 THEN turn + 1 ELSE turn

EndTurnCommand ==
    /\ Awaiting
    /\ commands' = commands + 1
    /\ ender' = current_player_id
    /\ ai_turns' = [id \in Players |-> 0]
    /\ LET id == current_player_id
           ps1 == [players EXCEPT ![id] = UpdateEndingPlayer(players[id], game_map, id)]
           ps2 == RecountLand(ps1, game_map)
           np == next_player(ps2, id)
       IN IF np.player = 0
          THEN GameOver(ps2, game_map, np)
          ELSE HandOver([ps2 EXCEPT ![np.player] = reset_diplomatic_changes(@)],
                        ClearMoved(game_map), np)

AIChainTurn ==
    /\ pc = "ai_loop"
    /\ SumOver(Players, ai_turns) < MaxChain
    /\ ai_turns' = [ai_turns EXCEPT ![current_player_id] = @ + 1]
    /\ UNCHANGED <<commands, ender>>
    /\ \E m \in {make_decisions(players[current_player_id], game_map,
                                current_player_id)} :
        \E choice \in ConstructionChoices(m.game_map, current_player_id) :
          \E u \in {UpdateAIPlayer(handle_construction(m.player, m.game_map,
                                       current_player_id, choice))} :
            \E np \in {next_player([players EXCEPT ![current_player_id] = u.player],
                                   current_player_id)} :
               IF np.player = 0
               THEN GameOver([players EXCEPT ![current_player_id] = u.player],
                             ClearMoved(u.game_map), np)
               ELSE HandOver([players EXCEPT ![current_player_id] = u.player],
                             ClearMoved(u.game_map), np)

Next ==
    \/ BuildCommand
    \/ SellCommand
    \/ MoveCommand
    \/ EmbarkCommand
    \/ SetNegativeCommand
    \/ ImproveRelationsCommand
    \/ EndTurnCommand
    \/ AIChainTurn

Spec == Init /\ [][Next]_vars

(***************************************************************************)
(* The turn cycle on its own, from every start main() can produce: the    *)
(* scenario file decides which empires own cells, and the country chosen   *)
(* on the selection screen is the one human empire and the current one     *)
(* (game.py 908-915, set_player_control).                                  *)
(***************************************************************************)
\* the scenario's map with the cells of the empires outside alive unowned
ScenarioMapOf(alive) ==
    [ScenarioMap EXCEPT
        !["owner"] = [c \in Cells |-> IF @[c] \in alive THEN @[c] ELSE 0],
        !["original"] = [c \in Cells |-> IF @[c] \in alive THEN @[c] ELSE 0]]

\* game.py 911-914
SelectCountry(ps, selected_country) ==
    [id \in Players |->
        [ps[id] EXCEPT !.control = IF id = selected_country
                                   THEN "human" ELSE "default.ai"]]

InitTurn ==
    \E selected_country \in Players, alive \in SUBSET Players :
        /\ game_map = ScenarioMapOf(alive)
        /\ players = RecountLand(SelectCountry(ScenarioPlayers, selected_country),
                                 ScenarioMapOf(alive))
        /\ current_player_id = selected_country
        /\ running = TRUE
        /\ turn = 0
        /\ pc = "await"
        /\ commands = 0
        /\ ender = 0
        /\ ai_turns = [id \in Players |-> 0]

NextTurn ==
    \/ EndTurnCommand
    \/ AIChainTurn

SpecTurn == InitTurn /\ [][NextTurn]_vars

(***************************************************************************)
(* Embarkation on its own, from the scenario files that differ in the      *)
(* first empire's fleet counters (game.py 61-63) and in the army it has    *)
(* afloat on its sea cell (game.py 79-84).                                 *)
(***************************************************************************)
InitEmbark ==
    \E navy \in 0..MaxFleet, sea_army \in 0..MaxFleet,
       sea_moved \in 0..MaxFleet, afloat \in 0..MaxFleet :
        /\ game_map = [ScenarioMap EXCEPT !["army"][<<0, 1>>] = afloat]
        /\ players = RecountLand([ScenarioPlayers EXCEPT
                                     ![1].navy = navy,
                                     ![1].sea_army = sea_army,
                                     ![1].sea_moved = sea_moved],
                                 ScenarioMap)
        /\ current_player_id = 1
        /\ running = TRUE
        /\ turn = 0
        /\ pc = "await"
        /\ commands = 0
        /\ ender = 0
        /\ ai_turns = [id \in Players |-> 0]

NextEmbark == EmbarkCommand

SpecEmbark == InitEmbark /\ [][NextEmbark]_vars

(***************************************************************************)
(* Science on its own: funded spending, the passive tick of end_turn and   *)
(* the AI turns, from the scenario files that differ in the first empire's *)
(* treasury (game.py 60) and science levels (game.py 68-69).               *)
(***************************************************************************)
InitScience ==
    \E money \in {700, 3000}, level \in {1000, 1100} :
        /\ game_map = ScenarioMap
        /\ players = RecountLand([ScenarioPlayers EXCEPT
                                     ![1].money = money,
                                     ![1].science = [i \in 1..6 |-> level]],
                                 ScenarioMap)
        /\ current_player_id = 1
        /\ running = TRUE
        /\ turn = 0
        /\ pc = "await"
        /\ commands = 0
        /\ ender = 0
        /\ ai_turns = [id \in Players |-> 0]

NextScience ==
    \/ SpendScienceCommand
    \/ EndTurnCommand
    \/ AIChainTurn

SpecScience == InitScience /\ [][NextScience]_vars

(***************************************************************************)
(* Building, selling, moving, embarking (naval invasion included) and the  *)
(* end of the turn, from the scenario files in which the first empire also *)
(* holds the central sea cell, with an army afloat on it next to the land  *)
(* of empires 2 and 3, and empire 2 has a navy or none.                    *)
(***************************************************************************)
InitInvasion ==
    \E afloat \in 1..MaxFleet, enemy_navy \in 0..1 :
        LET gm == [ScenarioMap EXCEPT !["owner"][<<1, 1>>] = 1,
                                      !["original"][<<1, 1>>] = 1,
                                      !["army"][<<1, 1>>] = afloat]
        IN /\ game_map = gm
           /\ players = RecountLand([ScenarioPlayers EXCEPT
                                        ![1].navy = MaxFleet,
                                        ![2].navy = enemy_navy], gm)
           /\ current_player_id = 1
           /\ running = TRUE
           /\ turn = 0
           /\ pc = "await"
           /\ commands = 0
           /\ ender = 0
           /\ ai_turns = [id \in Players |-> 0]

NextInvasion ==
    \/ BuildCommand
    \/ SellCommand
    \/ MoveCommand
    \/ EmbarkCommand
    \/ EndTurnCommand
    \/ AIChainTurn

SpecInvasion == InitInvasion /\ [][NextInvasion]_vars

(***************************************************************************)
(* Every command of the model, for every country chosen on the selection   *)
(* screen, from the scenario and from the one in which the chosen country  *)
(* is the only empire with land.                                           *)
(***************************************************************************)
InitCountry ==
    \E selected_country \in Players :
        \E alive \in {Players, {selected_country}} :
            /\ game_map = ScenarioMapOf(alive)
            /\ players = RecountLand(SelectCountry(ScenarioPlayers,
                                                   selected_country),
                                     ScenarioMapOf(alive))
            /\ current_player_id = selected_country
            /\ running = TRUE
            /\ turn = 0
            /\ pc = "await"
            /\ commands = 0
            /\ ender = 0
            /\ ai_turns = [id \in Players |-> 0]

NextAll ==
    \/ BuildCommand
    \/ SellCommand
    \/ MoveCommand
    \/ EmbarkCommand
    \/ SetNegativeCommand
    \/ ImproveRelationsCommand
    \/ SpendScienceCommand
    \/ TaxCommand
    \/ EndTurnCommand
    \/ AIChainTurn

SpecAll == InitCountry /\ [][NextAll]_vars

(***************************************************************************)
(* Naval battles on their own: embark commands from the scenario files in  *)
(* which the first empire holds the central sea cell with an army afloat,  *)
(* its military science is 1.0 or 1.1 (game.py 68-69) and empire 2 has a   *)
(* navy of any size up to the bound (game.py 61).                          *)
(***************************************************************************)
InitBattle ==
    \E afloat \in 1..MaxFleet, enemy_navy \in 0..MaxFleet,
       military \in {1000, 1100} :
        LET gm == [ScenarioMap EXCEPT !["owner"][<<1, 1>>] = 1,
                                      !["original"][<<1, 1>>] = 1,
                                      !["army"][<<1, 1>>] = afloat]
        IN /\ game_map = gm
           /\ players = RecountLand([ScenarioPlayers EXCEPT
                                        ![1].navy = MaxFleet,
                                        ![1].science[5] = military,
                                        ![2].navy = enemy_navy], gm)
           /\ current_player_id = 1
           /\ running = TRUE
           /\ turn = 0
           /\ pc = "await"
           /\ commands = 0
           /\ ender = 0
           /\ ai_turns = [id \in Players |-> 0]

NextBattle == EmbarkCommand

SpecBattle == InitBattle /\ [][NextBattle]_vars

(***************************************************************************)
(* The turn cycle: termination, game over, hand-over.                      *)
(***************************************************************************)
\* C1: the end_turn command terminates.  The chain loop at game.py 565
\* continues on the control and land_count of the empires alone, and no
\* iteration changes either; so the loop ends exactly when no empire is
\* given a second automatic turn within one call.
C1_EndTurnTerminates == \A id \in Players : ai_turns[id] <= 1

\* C2: the simulation ends only in a state where every empire has
\* land_count = 0: end_turn does not declare game over while some empire,
\* the ending one included, still owns a cell.
C2_GameOverOnlyWithoutLand ==
    ~running => \A id \in Players : players[id].land_count = 0

\* the ids strictly after a and before b in cyclic id order (all the others
\* when a = b)
Between(a, b) ==
    LET dist(x) == IF x = a THEN NumPlayers ELSE (x - a) % NumPlayers
    IN {id \in Players \ {a, b} : dist(id) < dist(b)}

\* C3: when end_turn has completed without game over, the current empire
\* is human-controlled with land_count > 0, and every AI-controlled empire
\* with land between the ending empire and it has had exactly one automatic
\* turn (make_decisions is the first statement of an automatic turn).
C3_ControlReturnedToHuman ==
    (pc = "await" /\ running /\ ender # 0) =>
        /\ HasPlayer(current_player_id)
        /\ players[current_player_id].control = "human"
        /\ players[current_player_id].land_count > 0
        /\ \A id \in Between(ender, current_player_id) :
              (players[id].control # "human" /\ players[id].land_count > 0)
                 => ai_turns[id] = 1
        /\ \A id \in Players :
              ai_turns[id] > 0 => id \in Between(ender, current_player_id)

\* an end_turn that handed over past a landless empire and through an
\* automatic turn
C3_Witness ==
    /\ pc = "await" /\ running /\ ender # 0
    /\ \E id \in Between(ender, current_player_id) : ai_turns[id] = 1
    /\ \E id \in Between(ender, current_player_id) : players[id].land_count = 0

(***************************************************************************)
(* Empire bookkeeping.                                                     *)
(***************************************************************************)
\* C4: for every empire the six population groups sum to its population.
C4_PartitionSumsToPopulation ==
    \A id \in Players :
        LET p == players[id]
        IN p.peasants + p.fishers + p.workers + p.merchants + p.soldiers
              + p.unemployed = p.population

\* C5: for every empire the embarked units never exceed the navy:
\* sea_army + sea_moved <= navy.
C5_EmbarkedWithinNavy ==
    \A id \in Players :
        players[id].sea_army + players[id].sea_moved <= players[id].navy

\* the field of Player that totals a building layer
TotalOf(p, building) ==
    CASE building = "fort" -> p.forts
      [] building = "church" -> p.churches
      [] building = "university" -> p.universities
      [] building = "mill" -> p.mills

\* C9: for every empire and each of fort, church, university and mill, the
\* empire's building total equals the sum of that layer over its cells.
C9_BuildingTotalsMatchLayers ==
    \A id \in Players, building \in {"fort", "church", "university", "mill"} :
        TotalOf(players[id], building)
           = SumOver(Owned(game_map, id), game_map[building])

(***************************************************************************)
(* Commands: rejection, exceptions, diplomacy, movement.                   *)
(***************************************************************************)
\* the messages with which each handler refuses a command
BuildRejections ==
    {"You don't own this territory", "Cannot build on sea",
     "Cannot build on this terrain", "Not enough gold", "Not enough population",
     "Cannot recruit army on sea", "Must build navy on sea tile",
     "Must build navy adjacent to owned land"}
SellRejections ==
    {"You don't own this territory", "Not enough units",
     "Not enough naval units", "Nothing to sell"}
MoveRejections == {"", "Invalid move"}
EmbarkRejections ==
    {"You don't own this territory", "Not enough units",
     "No adjacent sea tiles to embark to",
     "No adjacent friendly territory with enough units",
     "No adjacent sea tiles for naval invasion"}

\* o refuses with a message of R and leaves the registry and the map alone
Unchanged(o, R) ==
    o.message \in R => o.players = players /\ o.game_map = game_map

\* C6: whenever a command can be given, every build, sell, move or embark
\* command that is rejected leaves every empire and all nine map layers as
\* they were.
C6_RejectionLeavesState ==
    (pc = "await" /\ running) =>
        \A c \in Cells, code \in Codes :
            /\ \A building \in Buildings :
                  /\ Unchanged(handle_build_command(players, game_map,
                        current_player_id, building, c, code), BuildRejections)
                  /\ Unchanged(handle_sell_command(players, game_map,
                        current_player_id, building, c, code), SellRejections)
            /\ \A direction \in Directions :
                  Unchanged(handle_move_command(players, game_map,
                     current_player_id, direction, c, code), MoveRejections)
            /\ Unchanged(handle_embark_command(players, game_map,
                  current_player_id, c, code, 100, 100), EmbarkRejections)

\* after a purchase and an embarkation: a fort is refused for lack of gold,
\* a sale for lack of ships, a move as invalid and an embarkation for lack
\* of naval capacity
C6_Witness ==
    /\ pc = "await" /\ running
    /\ players[current_player_id].sea_moved > 0
    /\ \E c \in Cells, code \in Codes :
          /\ handle_build_command(players, game_map, current_player_id,
                                  "fort", c, code).message = "Not enough gold"
          /\ handle_sell_command(players, game_map, current_player_id,
                                 "navy", c, code).message = "Not enough naval units"
    /\ \E c \in Cells, code \in Codes, direction \in Directions :
          handle_move_command(players, game_map, current_player_id,
                              direction, c, code).message = "Invalid move"
    /\ \E c \in Cells, code \in Codes :
          /\ game_map["army"][c] >= UnitSize(code)
          /\ handle_embark_command(players, game_map, current_player_id,
                c, code, 100, 100).message = "No adjacent sea tiles to embark to"

\* C7: handle_command never raises into its caller.
C7_CommandNeverRaises == pc # "raised"

\* C8: once the current empire's tracker marks a target as changed this
\* turn, an improve_relations command toward that target leaves the level
\* the empire holds toward it unchanged.
C8_RelationChangesOncePerTurn ==
    (pc = "await" /\ running) =>
        \A target_id \in players[current_player_id].relations_changed :
            RelationLevel(handle_improve_relations(players, current_player_id,
                              target_id)[current_player_id], target_id)
               = RelationLevel(players[current_player_id], target_id)

\* C10: a successful move takes the units from the army layer of the source,
\* adds them to the moved layer of the destination and leaves the army layer
\* of the destination alone; and when that layer holds fewer units than were
\* moved, no move of as many units out of the destination succeeds.
C10_MoveArmyWritesMovedLayer ==
    (pc = "await" /\ running) =>
        \A direction \in Directions, c \in Cells, code \in Codes :
            MoveSucceeds(game_map, current_player_id, direction, c, code) =>
                LET to == MoveTarget(c, direction)
                    amount == UnitSize(code)
                    after == handle_move_command(players, game_map,
                                current_player_id, direction, c, code).game_map
                IN /\ after["army"][c] = game_map["army"][c] - amount
                   /\ after["moved"][to] = game_map["moved"][to] + amount
                   /\ after["army"][to] = game_map["army"][to]
                   /\ game_map["army"][to] < amount =>
                         \A second \in Directions :
                            ~MoveSucceeds(after, current_player_id, second,
                                          to, code)

\* units have arrived in a cell of the current empire whose army layer
\* holds fewer, and no move of that many units out of the cell succeeds
C10_Witness ==
    /\ pc = "await" /\ running
    /\ \E c \in Cells, code \in Codes :
          /\ game_map["owner"][c] = current_player_id
          /\ game_map["moved"][c] = UnitSize(code)
          /\ game_map["army"][c] < UnitSize(code)
          /\ \A direction \in Directions :
                ~MoveSucceeds(game_map, current_player_id, direction, c, code)

(***************************************************************************)
(* MilitaryManager.embark_army.                                            *)
(***************************************************************************)
\* the precondition of the contract: a source holding the units and a sea
\* destination (both cells are in bounds)
EmbarkPre(from, to, amount) ==
    /\ game_map["army"][from] >= amount
    /\ game_map["terrain"][to] = 0

\* what the contract says of every call but the army layer: refusal without
\* a change exactly when the naval capacity is exceeded, otherwise sea_moved
\* raised by the amount and sea_army and navy kept
EmbarkCounters(owner, amount, r) ==
    IF owner.sea_army + owner.sea_moved + amount > owner.navy
    THEN ~r.ok /\ r.owner = owner /\ r.game_map = game_map
    ELSE /\ r.ok
         /\ r.owner.sea_moved = owner.sea_moved + amount
         /\ r.owner.sea_army = owner.sea_army
         /\ r.owner.navy = owner.navy

\* C11 as stated: under the precondition, embark_army refuses without a
\* change when sea_army + sea_moved + amount > navy, and otherwise returns
\* True, raises sea_moved by the amount, lowers the source army cell by the
\* amount and raises the destination army cell by the amount.
C11_EmbarkArmyContract ==
    \A id \in Players, from \in Cells, to \in Cells, code \in Codes :
        LET amount == UnitSize(code)
            r == embark_army(game_map, players[id], amount, from, to)
        IN EmbarkPre(from, to, amount) =>
              /\ EmbarkCounters(players[id], amount, r)
              /\ r.ok => /\ r.game_map["army"][from]
                               = game_map["army"][from] - amount
                         /\ r.game_map["army"][to]
                               = game_map["army"][to] + amount

\* C11, amended: as stated when source and destination are different cells;
\* when they are the same cell (the call at game.py 334-335) a successful
\* call raises sea_moved by the amount and leaves the cell's army as it was.
\* In both cases no other cell and no other layer changes.
C11_EmbarkArmyContractByCell ==
    \A id \in Players, from \in Cells, to \in Cells, code \in Codes :
        LET amount == UnitSize(code)
            r == embark_army(game_map, players[id], amount, from, to)
        IN EmbarkPre(from, to, amount) =>
              /\ EmbarkCounters(players[id], amount, r)
              /\ r.ok =>
                   /\ from # to =>
                        /\ r.game_map["army"][from]
                              = game_map["army"][from] - amount
                        /\ r.game_map["army"][to]
                              = game_map["army"][to] + amount
                   /\ from = to =>
                        r.game_map["army"][from] = game_map["army"][from]
                   /\ \A c \in Cells \ {from, to} :
                        r.game_map["army"][c] = game_map["army"][c]
                   /\ \A l \in Layers \ {"army"} : r.game_map[l] = game_map[l]

\* after an embark command: for the current empire one call is refused for
\* lack of capacity, one succeeds between two cells and one succeeds from a
\* sea cell to itself
C11_Witness ==
    /\ commands > 0
    /\ \E from \in Cells, to \in Cells, code \in Codes :
          /\ EmbarkPre(from, to, UnitSize(code))
          /\ ~embark_army(game_map, players[current_player_id],
                          UnitSize(code), from, to).ok
    /\ \E from \in Cells, to \in Cells, code \in Codes :
          /\ from # to
          /\ embark_army(game_map, players[current_player_id],
                         UnitSize(code), from, to).ok
    /\ \E from \in Cells, code \in Codes :
          embark_army(game_map, players[current_player_id],
                      UnitSize(code), from, from).ok

(***************************************************************************)
(* AI._adjust_tax_rate.                                                    *)
(***************************************************************************)
\* the candidate percentages 1..25 whose morale, computed by calculate_morale
\* with tax_rate set to the percentage on the 0-100 scale (t percent is
\* 100 * t hundredths), exceeds the floor min_morale * (1 - unemployed / P)
SustainableTaxes(p) ==
    LET P == Max(p.population, 1)
    IN {t \in 1..25 : MoraleValue(p, 100 * t) * P
                         > AISettings.min_morale * (P - p.unemployed)}

\* C12: for every empire the tax adjustment leaves tax_rate at the highest
\* of the percentages 1..25 whose morale exceeds the floor, on the 0-100
\* scale of calculate_morale, or at the profile minimum when that is larger
\* or no percentage qualifies.
C12_HighestSustainableTax ==
    \A id \in Players :
        LET good == SustainableTaxes(players[id])
            best == IF good = {} THEN AISettings.min_tax
                    ELSE 100 * (CHOOSE t \in good : \A u \in good : u <= t)
        IN adjust_tax_rate(players[id]).tax_rate
              = Max(best, AISettings.min_tax)

(***************************************************************************)
(* Science: spend_on_science and update_science.                           *)
(***************************************************************************)
\* the contract of one call of spend_on_science on player p
SpendContract(p, branch, amount) ==
    LET r == spend_on_science(p, branch, amount)
        level == p.science[branch]
        raised == r.player.science[branch] - level
        deducted == p.money - r.player.money
    IN /\ 0 <= raised /\ raised <= 300
       /\ 0 <= deducted /\ deducted <= Cube(level)
       /\ deducted <= Max(amount, 0)
       /\ (amount <= 0 \/ amount > p.money) => r.progress = 0 /\ r.player = p
       /\ deducted > 0 => raised > 0
       /\ r.progress = raised
       /\ \A i \in (1..6) \ {branch} : r.player.science[i] = p.science[i]

\* C13: for every empire, whatever the number of its universities, every
\* branch 1..6 and every amount: one call of spend_on_science raises the
\* branch by at most 0.3, deducts at most level^3 * 1000 (level before the
\* call) and at most the amount asked; with amount <= 0 or amount > treasury
\* it returns 0 and changes nothing; and it deducts only when it raised the
\* level.
C13_SpendOnScienceBounded ==
    \A id \in Players, u \in {0, MaxUniversities} :
        \A branch \in 1..6, amount \in ScienceAmounts :
            SpendContract([players[id] EXCEPT !.universities = u],
                          branch, amount)

\* after a spend_science command that took effect and before any end_turn:
\* one call is clamped to the spending limit, one is refused for exceeding
\* the treasury, and with universities one call is capped at 0.3
C13_Witness ==
    /\ pc = "await" /\ commands > 0 /\ ender = 0
    /\ \E branch \in 1..6, amount \in ScienceAmounts :
          LET p == players[current_player_id]
              r == spend_on_science(p, branch, amount)
          IN /\ amount > Cube(p.science[branch])
             /\ p.money - r.player.money = Cube(p.science[branch])
    /\ \E branch \in 1..6, amount \in ScienceAmounts :
          /\ amount > players[current_player_id].money
          /\ amount > 0
    /\ \E branch \in 1..6, amount \in ScienceAmounts :
          spend_on_science([players[current_player_id] EXCEPT
                               !.universities = MaxUniversities],
                           branch, amount).progress = 300

\* every level of every empire is at least 1.0
ScienceFloor ==
    \A id \in Players, i \in 1..6 : players[id].science[i] >= 1000

\* the passive tick raises every branch of an empire of 100 people or more
\* and leaves every branch of a smaller one as it was
TickContract ==
    \A id \in Players :
        LET p == players[id]
            q == update_science(p)
        IN IF p.population >= 100
           THEN \A i \in 1..6 : q.science[i] > p.science[i]
           ELSE q.science = p.science

\* C14: along every sequence of spend_science commands, end_turn commands
\* and AI turns, every level of every empire stays at least 1.0 and no step
\* lowers one; and in every state the passive tick raises every branch of an
\* empire with population >= 100 and leaves those of a smaller one unchanged.
C14_ScienceNeverDecreases ==
    /\ [](ScienceFloor /\ TickContract)
    /\ [][\A id \in Players, i \in 1..6 :
             players'[id].science[i] >= players[id].science[i]]_vars

\* a spend_science command raised one branch of empire 1 above the others,
\* then its end_turn ran the passive tick for it and the AI turns for the
\* others: empire 2 (100 people) gained, empire 3 (40 people) did not
C14_Witness ==
    /\ pc = "await" /\ commands = 2 /\ ender = 1
    /\ \E i \in 1..6, j \in 1..6 : players[1].science[i] > players[1].science[j]
    /\ ai_turns[2] = 1 /\ ai_turns[3] = 1
    /\ players[2].population >= 100 /\ players[3].population < 100
    /\ \A i \in 1..6 : /\ players[2].science[i] > 1000
                       /\ players[3].science[i] = 1000

(***************************************************************************)
(* PlayerManager.calculate_morale.                                         *)
(***************************************************************************)
\* the players calculate_morale is tried on: player p with every combination
\* of a tax rate 0..100 (hundredths), a trust (tenths), a treasury, a
\* population of 0 or its own, and nobody, half or everybody unemployed
MoraleInputs(p) ==
    {[p EXCEPT !.tax_rate = tax, !.trust = trust, !.money = money,
               !.population = population,
               !.unemployed = (population * half) \div 2] :
        tax \in {0, 2500, 5000, 10000}, trust \in {0, 50},
        money \in {-100000, -500, 5000},
        population \in {0, p.population}, half \in 0..2}

\* C15: calculate_morale leaves a morale in [0, 1] for every tax rate in
\* [0, 100], unemployed in 0..population, trust >= 0, population >= 0 and
\* signed treasury; and the morale of every empire is in [0, 1] in every
\* state.
C15_MoraleWithinUnitInterval ==
    \A id \in Players :
        /\ players[id].morale \in 0..1000
        /\ \A q \in MoraleInputs(players[id]) :
              calculate_morale(q).morale \in 0..1000

\* after an end_turn and the AI tax adjustment of empire 2, whose morale
\* both left at the upper clamp: among the inputs tried, deep debt gives
\* morale 0, an empire without people gives a morale strictly inside the
\* interval, and the product without the clamp would exceed 1
C15_Witness ==
    /\ ender = 1 /\ ai_turns[2] = 1
    /\ players[1].morale = 1000 /\ players[2].morale = 1000
    /\ MoraleValue_no_upper_clamp(players[2], players[2].tax_rate) > 1000
    /\ \E q \in MoraleInputs(players[2]) :
          q.money < 0 /\ q.tax_rate < 5000 /\ q.unemployed < q.population
             /\ calculate_morale(q).morale = 0
    /\ \E q \in MoraleInputs(players[2]) :
          q.population = 0 /\ calculate_morale(q).morale \in 1..999

(***************************************************************************)
(* PlayerManager.next_player.                                              *)
(***************************************************************************)
\* how far id lies after c in the cyclic order 1..9; c itself comes last
CyclicDistance(c, id) ==
    IF id = c THEN max_players ELSE (id - c) % max_players

\* the empire with land that follows c first in cyclic order, 0 for none
FirstEligible(ps, c) ==
    LET eligible == {id \in Players : ps[id].land_count > 0}
    IN IF eligible = {} THEN 0
       ELSE CHOOSE id \in eligible :
               \A other \in eligible :
                  CyclicDistance(c, id) <= CyclicDistance(c, other)

\* the registry with land_count 1 for the empires of S and 0 for the others
WithLand(ps, S) ==
    [id \in Players |->
        [ps[id] EXCEPT !.land_count = IF id \in S THEN 1 ELSE 0]]

\* C16: from every current empire c, next_player returns the empire with
\* land_count > 0 that follows c first in the cyclic order of the ids, with
\* no eligible empire skipped, and none only when no empire is eligible, and
\* it leaves current_player_id at the empire returned; with only empire 2
\* eligible it returns 2 from 1, and none once empire 2 has no land.
C16_NextPlayerFirstEligible ==
    /\ \A c \in Players :
          LET r == next_player(players, c)
          IN /\ r.player = FirstEligible(players, c)
             /\ r.player # 0 => r.current_player_id = r.player
    /\ next_player(WithLand(players, {2}), 1).player = 2
    /\ next_player(WithLand(players, {}), 2).player = 0

(***************************************************************************)
(* Game._handle_end_turn: what the empire that receives control finds.     *)
(***************************************************************************)
\* C17: every step of end_turn that makes another empire the active one
\* (directly or after automatic AI turns, the game not being over) leaves
\* that empire's relations_changed tracker empty and every cell of the moved
\* layer 0.
C17_HandOverResetsTrackers ==
    [][(current_player_id' # current_player_id /\ running') =>
          /\ players'[current_player_id'].relations_changed = {}
          /\ game_map'["moved"] = Zero]_vars

\* C18: a step raises the turn counter, by exactly 1, when it completes an
\* end_turn call that returns control to empire 1; every other step (any
\* other command, an end_turn that returns control to another empire or ends
\* the game, an automatic turn inside the call) leaves it; so it never
\* decreases.
C18_TurnCountsReturnsToFirst ==
    [][turn' = IF /\ current_player_id' # current_player_id
                  /\ pc' = "await" /\ running'
                  /\ current_player_id' = 1
               THEN turn + 1 ELSE turn]_vars

\* empire 1, human, gave a command that left the counter and then ended its
\* turn: control came back to it through the automatic turn of empire 2 and
\* the counter is 1
C18_Witness ==
    /\ pc = "await" /\ running
    /\ commands = 2 /\ ender = 1 /\ current_player_id = 1
    /\ ai_turns[2] = 1
    /\ turn = 1

\* every empire's land_count is the number of cells it owns
LandCountsMatch(ps, gm) ==
    \A id \in Players : ps[id].land_count = Cardinality(Owned(gm, id))

\* C19: every step that completes an end_turn call, by handing control to
\* an empire or by ending the game, leaves every empire's land_count equal
\* to the number of cells of the owner layer that hold its id.
C19_LandCountAfterEndTurn ==
    [][(current_player_id' # current_player_id /\ pc' = "await") =>
          LandCountsMatch(players', game_map')]_vars

\* empire 1 captured a cell of empire 2 by naval invasion, which left both
\* land counts stale, and then ended its turn: control is back with it and
\* the counts are those of the owner layer
C19_Witness ==
    /\ pc = "await" /\ running
    /\ commands = 2 /\ ender = 1 /\ current_player_id = 1
    /\ \E c \in Cells : game_map["original"][c] = 2 /\ game_map["owner"][c] = 1
    /\ ai_turns[2] = 1
    /\ LandCountsMatch(players, game_map)

(***************************************************************************)
(* The map.                                                                *)
(***************************************************************************)
\* C20: in every state reached by build, sell, move and embark commands,
\* end_turn and AI turns, every cell's owner is 0 or the id of an empire of
\* the registry, and every cell's fort, church, university, mill, army and
\* moved count is an integer >= 0.
C20_MapWellFormed ==
    \A c \in Cells :
        /\ game_map["owner"][c] \in {0} \cup Players
        /\ \A l \in {"fort", "church", "university", "mill", "army", "moved"} :
              game_map[l][c] \in Nat

\* after two commands: a cell of empire 2 was captured by naval invasion and
\* holds the surviving units, and a cell that had an army was emptied by a
\* sale or a move
C20_Witness ==
    /\ commands = 2
    /\ \E c \in Cells : /\ game_map["original"][c] = 2
                        /\ game_map["owner"][c] = 1
                        /\ game_map["army"][c] > 0
    /\ \E c \in Cells : ScenarioArmy[c] > 0 /\ game_map["army"][c] = 0

(***************************************************************************)
(* MilitaryManager.calculate_battle.                                       *)
(***************************************************************************)
\* attack_strength and defense_strength of a call, as exact integers on one
\* scale: force x military science x random factor, x sailing science in a
\* naval battle, and for the defender on land x (1 + terrain bonus + 0.3 x
\* fort level)
AttackStrength(attacker, attack_force, is_naval, r1) ==
    attack_force * attacker.science[5] * r1
       * (IF is_naval THEN attacker.science[4] ELSE 10)

DefenseStrength(defender, defend_force, terrain_type, fort_level, is_naval, r2) ==
    defend_force * defender.science[5] * r2
       * (IF is_naval THEN defender.science[4]
          ELSE 10 + get_terrain(terrain_type).defense_bonus + 3 * fort_level)

\* the forces, terrain ids and fort levels the battle is resolved for
BattleForces == {0, 1, 10, 11}
BattleTerrains == {0, 4}
BattleForts == {0, 2}
\* the draws of random.random() for the fort damage, in percent
BattleFortDraws == {0, 99}

\* C21: for every call of calculate_battle that returns, territory_captured
\* is True exactly when the attack strength is strictly greater than the
\* defense strength; when it is not, fort_damage and population_exchange
\* are 0 and in a land battle the attacker loses its whole force; and force
\* 10 against 10 with all science 1.0, terrain defense bonus 0.1, no fort and
\* random factors 1.0 gives attacker losses 10 and defender losses 0.
C21_CaptureOnlyOnAttackerWin ==
    /\ \A defender_id \in Players \ {current_player_id} :
        \A attack_force \in BattleForces \ {0}, defend_force \in BattleForces :
         \A terrain_type \in BattleTerrains, fort_level \in BattleForts :
          \A is_naval \in BOOLEAN, r1 \in RandFactors, r2 \in RandFactors :
           \A r3 \in BattleFortDraws :
             LET attacker == players[current_player_id]
                 defender == players[defender_id]
                 att == AttackStrength(attacker, attack_force, is_naval, r1)
                 def == DefenseStrength(defender, defend_force, terrain_type,
                                        fort_level, is_naval, r2)
                 b == calculate_battle(attacker, defender, attack_force,
                         defend_force, terrain_type, fort_level, is_naval,
                         r1, r2, r3)
             IN ~b.raised =>
                   /\ b.territory_captured <=> att > def
                   /\ att <= def =>
                         /\ b.fort_damage = 0
                         /\ b.population_exchange = 0
                         /\ ~is_naval => b.attacker_losses = attack_force
    /\ \A r3 \in RandUnit :
          LET unit == [players[1] EXCEPT !.science = [i \in 1..6 |-> 1000]]
              b == calculate_battle(unit, unit, 10, 10, 1, 0, FALSE,
                                    100, 100, r3)
          IN /\ ~b.raised /\ ~b.territory_captured
             /\ b.attacker_losses = 10 /\ b.defender_losses = 0

\* an embark command resolved a naval battle that empire 1 won, and the cell
\* of empire 2 was captured; among the calls tried in this state one has
\* equal strengths and one a stronger defender behind a fort, both without
\* capture
C21_Witness ==
    /\ commands > 0 /\ pc = "await"
    /\ \E c \in Cells : game_map["original"][c] = 2 /\ game_map["owner"][c] = 1
    /\ \E r3 \in RandUnit, is_naval \in BOOLEAN :
          LET b == calculate_battle(players[1], players[3], 10, 10, 0, 0,
                                    is_naval, 100, 100, r3)
          IN /\ AttackStrength(players[1], 10, is_naval, 100)
                   = DefenseStrength(players[3], 10, 0, 0, is_naval, 100)
             /\ ~b.raised /\ ~b.territory_captured
    /\ \E r3 \in RandUnit :
          LET b == calculate_battle(players[1], players[2], 10, 11, 4, 2,
                                    FALSE, 109, 90, r3)
          IN ~b.raised /\ ~b.territory_captured /\ b.defender_losses > 0

(***************************************************************************)
(* TerrainManager: construction and lookup.                                *)
(***************************************************************************)
\* C22: after construction from any source (no file, or a file whose first
\* 0..9 entries are well-formed), the catalogue is sea followed by the nine
\* loaded types when all nine entries were read, and otherwise sea followed
\* by exactly the nine built-in types at ids 1..9; and get_terrain returns
\* the sea definition for every id outside the catalogue, the ids of the
\* map's terrain layer included.
C22_CatalogLoadedOrDefault ==
    \A well_formed \in 0..9 :
        LET types == load_terrain_types(well_formed)
        IN /\ IF well_formed = 9
              THEN types = <<terrain_types[1]>> \o [i \in 1..9 |-> SourceType(i)]
              ELSE types = terrain_types
           /\ \A index \in ((-2)..(Len(types) + 2))
                              \cup {game_map["terrain"][c] : c \in Cells} :
                 (index < 0 \/ index >= Len(types)) =>
                    get_terrain_in(types, index) = terrain_types[1]

(***************************************************************************)
(* PlayerManager.calculate_population_growth.                              *)
(***************************************************************************)
\* the food potentials summed over the cells of an empire, as game.py
\* 456-463 sums them
FoodSum(gm, id) ==
    SumOver(Owned(gm, id), [c \in Cells |-> get_food_potential(gm["terrain"][c])])

\* the players the growth is computed for: player p with every combination
\* of nobody, one person or its own population, morale 0 or its own, and
\* medicine 0.9 or its own
GrowthInputs(p) ==
    {[p EXCEPT !.population = population, !.morale = morale,
               !.science[6] = medicine] :
        population \in {0, 1, p.population}, morale \in {0, p.morale},
        medicine \in {900, p.science[6]}}

\* the sign of the growth rate (0.005 + (medicine - 1) + avgFood x
\* agriculture x 0.01 + min(churches x 0.02, 0.10)) x morale
RatePositive(p, food_sum, territory_count) ==
    GrowthRateBase(p, food_sum, territory_count) * p.morale > 0

\* C23 as stated: the growth is at least 1 whenever the rate is > 0,
\* population 0 included, and 0 whenever the rate is <= 0.
C23_GrowthFloor ==
    \A id \in Players :
        \A q \in GrowthInputs(players[id]) :
            LET food_sum == FoodSum(game_map, id)
                territory_count == Cardinality(Owned(game_map, id))
                growth == calculate_population_growth(q, food_sum,
                                                      territory_count)
            IN IF RatePositive(q, food_sum, territory_count)
               THEN growth >= 1
               ELSE growth = 0

\* C23, amended: for a population > 0 the growth is at least 1, and at
\* least the truncation of population x rate, whenever the rate is > 0, and
\* 0 whenever the rate is <= 0; for a population <= 0 it is 0 whatever the
\* rate.
C23_GrowthFloorOfPopulated ==
    \A id \in Players :
        \A q \in GrowthInputs(players[id]) :
            LET food_sum == FoodSum(game_map, id)
                territory_count == Cardinality(Owned(game_map, id))
                growth == calculate_population_growth(q, food_sum,
                                                      territory_count)
                rate == Trunc(GrowthRateBase(q, food_sum, territory_count)
                                 * q.morale, 1000)
            IN IF q.population <= 0 THEN growth = 0
               ELSE IF RatePositive(q, food_sum, territory_count)
               THEN growth >= 1
                    /\ growth >= Trunc(q.population * rate, 1000000)
               ELSE growth = 0

\* empire 1 has ended a turn and grown; for empire 3 (40 people) the rate is
\* positive, population x rate truncates to 0 and the growth is 1; and with
\* nobody left the growth of an empire is 0 at a positive rate
C23_Witness ==
    /\ ender = 1 /\ players[1].population > 100
    /\ LET food_sum == FoodSum(game_map, 3)
           territory_count == Cardinality(Owned(game_map, 3))
           p == players[3]
           rate == Trunc(GrowthRateBase(p, food_sum, territory_count)
                            * p.morale, 1000)
       IN /\ p.population > 0
          /\ RatePositive(p, food_sum, territory_count)
          /\ Trunc(p.population * rate, 1000000) = 0
          /\ calculate_population_growth(p, food_sum, territory_count) = 1
          /\ \E q \in GrowthInputs(p) :
                /\ q.population = 0
                /\ RatePositive(q, food_sum, territory_count)
                /\ calculate_population_growth(q, food_sum, territory_count) = 0

(***************************************************************************)
(* Game._handle_end_turn: the order of the ending empire's updates.        *)
(***************************************************************************)
\* C24: a step that runs end_turn for the current empire adds to its
\* treasury the income computed after morale and passive science were
\* updated and before this turn's growth was added to the population groups.
C24_IncomeBeforeGrowth ==
    [][(pc = "await" /\ current_player_id' # current_player_id) =>
          LET p == players[current_player_id]
              before_growth == update_science(calculate_morale(p))
          IN players'[current_player_id].money
                = p.money + calculate_income(before_growth)]_vars

(***************************************************************************)
(* Game._handle_end_turn: the automatic turn of an AI empire.              *)
(***************************************************************************)
\* the people in the five working groups and the unemployed
GroupTotal(p) ==
    p.peasants + p.fishers + p.workers + p.merchants + p.soldiers + p.unemployed

\* C25: a step that runs the automatic turn of an AI empire leaves it with
\* its passive science accrued and with the population growth of the turn
\* (computed from its morale and science after their update and the food of
\* its cells) added to its population and to its population groups, as the
\* end_turn of a human empire does.
C25_AITurnIncludesGrowth ==
    [][pc = "ai_loop" =>
          LET id == current_player_id
              before == players[id]
              after == players'[id]
              growth == calculate_population_growth(
                           [after EXCEPT !.population = before.population],
                           FoodSum(game_map', id),
                           Cardinality(Owned(game_map', id)))
          IN /\ after.science = update_science(before).science
             /\ after.population = before.population + growth
             /\ GroupTotal(after) = GroupTotal(before) + growth]_vars

(***************************************************************************)
(* AI._make_military_decisions: the budget.                                *)
(***************************************************************************)
\* ai.py 222-229: truncate(treasury x spending ratio)
MilitaryBudget(p) ==
    Trunc(p.money * (IF \E t \in Players : p.diplomatic_relations[t] = 1
                     THEN AISettings.war_military_spending
                     ELSE AISettings.peace_military_spending), 100)

\* C26: for every AI empire with a positive budget, one military step
\* spends on army units at most the budget and on navy at most
\* navy_priority x (budget - gold spent on army units), hence at most the
\* budget in all.
C26_MilitarySpendingWithinBudget ==
    \A id \in Players :
        LET p == players[id]
            budget == MilitaryBudget(p)
            defended == defend_territories(p, game_map, id, budget).player
            army_spent == p.money - defended.money
            navy_spent == defended.money
                             - make_military_decisions(p, game_map, id).player.money
        IN (p.control # "human" /\ budget > 0) =>
              /\ army_spent <= budget
              /\ 100 * navy_spent
                    <= AISettings.navy_priority * (budget - army_spent)
              /\ army_spent + navy_spent <= budget

(***************************************************************************)
(* Movement across the turn boundary.                                      *)
(***************************************************************************)
\* C27: a step that runs end_turn for the current empire and hands control
\* on (no battle, recruitment or sale is part of it) leaves in the army
\* layer of every cell the units it held plus the units that had arrived in
\* it, so the map-wide total of army + arrived units before the step is the
\* map-wide army total after it.
C27_MovementConservesUnits ==
    [][(pc = "await" /\ current_player_id' # current_player_id /\ running') =>
          /\ game_map'["moved"] = Zero
          /\ \A c \in Cells :
                game_map'["army"][c] = game_map["army"][c] + game_map["moved"][c]
          /\ SumOver(Cells, game_map'["army"])
                = SumOver(Cells, game_map["army"])
                     + SumOver(Cells, game_map["moved"])]_vars

(***************************************************************************)
(* game.py: save_game and load_scenario.  A file is the sequence of values *)
(* save_game writes, by field.  Integers are written in decimal and floats *)
(* with Python's shortest round-trip repr, so each value written is read   *)
(* back as itself; what the two functions do not write or do not store is  *)
(* what the round trip can lose.                                           *)
(***************************************************************************)
\* Game.save_game: the fields written for one empire (game.py 113-131); the
\* diplomacy rows are the placeholders "2" and "0"
SavedPlayer(p) ==
    [control |-> p.control, population |-> p.population, money |-> p.money,
     navy |-> p.navy, sea_army |-> p.sea_army, sea_moved |-> p.sea_moved,
     tax_rate |-> p.tax_rate, trust |-> p.trust, science |-> p.science,
     diplomacy |-> [t \in Players |-> 2]]

\* Game.save_game
save_game(ps, gm, cur, t) ==
    [num_players |-> NumPlayers, current_player |-> cur, turn |-> t,
     science_money |-> [i \in 1..6 |-> 0],
     players |-> [id \in Players |-> SavedPlayer(ps[id])],
     map |-> gm]

\* Game.load_scenario, one empire (game.py 54-73): add_player builds a
\* Player with its defaults, the population is read and distributed over the
\* groups, then the other fields are read; the diplomacy rows are skipped
ReadPlayer(f) ==
    [distribute_population(
        [control |-> f.control, money |-> 0, population |-> f.population,
         navy |-> 0, sea_army |-> 0, sea_moved |-> 0, land_count |-> 0,
         tax_rate |-> 1000, morale |-> 1000, trust |-> 10,
         peasants |-> 0, fishers |-> 0, workers |-> 0, merchants |-> 0,
         soldiers |-> 0, unemployed |-> 0,
         forts |-> 0, churches |-> 0, universities |-> 0, mills |-> 0,
         science |-> [i \in 1..6 |-> 1000],
         diplomatic_relations |-> [t \in Players |-> 0],
         relations_changed |-> {}])
     EXCEPT !.money = f.money, !.navy = f.navy, !.sea_army = f.sea_army,
            !.sea_moved = f.sea_moved, !.tax_rate = f.tax_rate,
            !.trust = f.trust, !.science = f.science]

\* Game.load_scenario into a fresh Game: the current empire id of the file
\* is read into a local variable (game.py 45) and PlayerManager keeps its
\* initial current_player_id = 1 (player.py 140); land_count is counted
\* while the owner layer is read (game.py 87-90)
load_scenario(file) ==
    [players |-> RecountLand([id \in Players |-> ReadPlayer(file.players[id])],
                             file.map),
     game_map |-> file.map,
     current_player_id |-> 1,
     turn |-> file.turn]

\* the fields of an empire the round trip is to keep
KeptFields ==
    {"population", "peasants", "fishers", "workers", "merchants", "soldiers",
     "unemployed", "money", "navy", "sea_army", "sea_moved", "tax_rate",
     "trust", "science"}

\* C28: whenever a command can be given, save_game followed by load_scenario
\* into a fresh engine restores the turn number, the current empire id, for
\* every empire its population, population groups, treasury, navy, embark
\* counters, tax rate, trust and six science levels, and all nine map layers.
C28_SaveLoadRoundTrip ==
    (pc = "await" /\ running) =>
        LET r == load_scenario(save_game(players, game_map,
                                         current_player_id, turn))
        IN /\ r.turn = turn
           /\ r.current_player_id = current_player_id
           /\ \A id \in Players, field \in KeptFields :
                 r.players[id][field] = players[id][field]
           /\ r.game_map = game_map

(***************************************************************************)
(* Purchases and the treasury.                                             *)
(***************************************************************************)
\* Player.get_spy_cost
get_spy_cost(p, target_id) ==
    IF RelationLevel(p, target_id) >= 4 THEN 200 ELSE 1000

\* game.py 206-217: the spy command, as far as the treasury goes
handle_spy_command(p, target_id) ==
    IF p.money >= get_spy_cost(p, target_id)
    THEN [p EXCEPT !.money = @ - get_spy_cost(p, target_id)]
    ELSE p

\* the side of the map the program allocates (game.py 28-36) and the first n
\* of its cells in scan order
FullMapSide == 15

FirstCells(n) ==
    [i \in 1..n |-> <<(i - 1) % FullMapSide, (i - 1) \div FullMapSide>>]

\* AI._make_military_decisions on a map of the program's size, given by what
\* the step reads of it: the threatened cells that _defend_territories
\* collects (ai.py 248-260), the army layer and whether _has_coast holds
make_military_decisions_on(p, army, threatened, coast) ==
    LET military_budget == MilitaryBudget(p)
        armies_per_territory ==
            Max(1, military_budget \div (Len(threatened) * ARMY_COST))
        d == IF threatened = << >> THEN [player |-> p, army |-> army]
             ELSE DefendLoop(p, army, threatened, armies_per_territory)
        navy_budget == (military_budget * AISettings.navy_priority) \div 100
        p2 == IF coast THEN build_navy(d.player, navy_budget) ELSE d.player
    IN IF military_budget > 0
       THEN [player |-> p2, army |-> d.army]
       ELSE [player |-> p, army |-> army]

\* C29: from a treasury >= 0, no build, spy or spend_science command of the
\* current empire and no make_decisions step of an AI empire (army defence,
\* navy building, construction), on the map of the state or on a map of the
\* program's size with any number of threatened cells, leaves the acting
\* empire's treasury below 0.
C29_PurchasesKeepTreasury ==
    /\ (pc = "await" /\ running /\ players[current_player_id].money >= 0) =>
          LET id == current_player_id
          IN /\ \A building \in Buildings, c \in Cells, code \in Codes :
                   handle_build_command(players, game_map, id, building,
                                        c, code).players[id].money >= 0
             /\ \A target_id \in Players :
                   handle_spy_command(players[id], target_id).money >= 0
             /\ \A branch \in 1..6, amount \in ScienceAmounts :
                   spend_on_science(players[id], branch, amount).player.money
                      >= 0
    /\ \A id \in Players :
          (players[id].control # "human" /\ players[id].money >= 0) =>
             LET m == make_decisions(players[id], game_map, id)
             IN /\ \A choice \in ConstructionChoices(m.game_map, id) :
                      handle_construction(m.player, m.game_map, id,
                                          choice).player.money >= 0
                /\ \A n \in 0..MaxThreatened, coast \in BOOLEAN :
                      make_military_decisions_on(
                          adjust_tax_rate(players[id]),
                          [c \in (0..(FullMapSide - 1)) \X (0..(FullMapSide - 1))
                              |-> 0],
                          FirstCells(n), coast).player.money >= 0

====
